---- MODULE Spec2Model ----
(***************************************************************************)
(* Time-aggregation engine and timer/category handlers of the tracer app   *)
(* (src/app/page.tsx, src/lib/dataService.ts).                             *)
(*                                                                         *)
(* Conventions                                                             *)
(*  - null / undefined string ids are the string Null; an undefined number *)
(*    (goalPct, end, lastStartTime) is the number Undef.                   *)
(*  - instants are integer milliseconds.  Seconds that the code obtains as *)
(*    ms / 1000 are held in thousandths of a second (Ms), so the division  *)
(*    is exact: a value v of the model stands for v / 1000 seconds.        *)
(*  - a pure function is exercised by a harness: args holds the inputs     *)
(*    drawn by the Init of its specification, op the function that ran,    *)
(*    ret its result.  The page component is left unmounted meanwhile.     *)
(*  - the handlers of the page component run over its React state (state), *)
(*    the stored rows (db) and the handler calls still awaiting the store  *)
(*    (tasks).  An await is a point where another handler may run.         *)
(***************************************************************************)
EXTENDS Integers, Sequences, FiniteSets, TLC

VARIABLES args, op, ret, isAuthenticated, state, db, tasks

harnessVars == <<args, op, ret>>
appVars == <<isAuthenticated, state, db, tasks>>
vars == <<args, op, ret, isAuthenticated, state, db, tasks>>

Null == "null"
Undef == -1

\* the page component before it is mounted: useState([]) / useState(null)
Unmounted ==
  /\ isAuthenticated = FALSE
  /\ state = [categories |-> <<>>, sessions |-> <<>>, goals |-> <<>>,
              activeId |-> Null]
  /\ db = [categories |-> <<>>, sessions |-> <<>>, goals |-> <<>>]
  /\ tasks = <<>>

\* ---- bounds of the model
MaxCats == 3
MaxDirect == 1
MaxStack == 8

\* ids the bounded inputs are drawn from; Orphan never names a category
CatPool == <<"a", "b", "c", "d", "e">>
Orphan == "x"
CatIdsUpTo(n) == {CatPool[i] : i \in 1..n}

RECURSIVE SumOver(_, _)
\* sum of f[x] over the finite set S
SumOver(f, S) ==
  IF S = {} THEN 0
  ELSE LET x == CHOOSE y \in S : TRUE IN f[x] + SumOver(f, S \ {x})

\* ---------------------------------------------------------------------
\* Category hierarchy and rollup (page.tsx 124-193)
\* ---------------------------------------------------------------------

\* key of a category in the adjacency map: c.parentId ?? "__root__"
ChildKey(c) == IF c.parentId = Null THEN "__root__" ELSE c.parentId

\* buildChildMap: parent key -> ids of its children, in category order
buildChildMap(categories) ==
  [key \in {ChildKey(categories[i]) : i \in DOMAIN categories} |->
     LET RECURSIVE kids(_)
         kids(i) == IF i > Len(categories) THEN <<>>
                    ELSE IF ChildKey(categories[i]) = key
                         THEN <<categories[i].id>> \o kids(i + 1)
                         ELSE kids(i + 1)
     IN kids(1)]

\* direct[id] ?? 0 that counts the direct time twice
DirectOrZeroTwice(direct, id) ==
  IF id \in DOMAIN direct THEN 2 * direct[id] ELSE 0

\* direct[id] ?? 0 with the first term dropped
DirectOrZeroDropped(direct, id) == 0

\* direct[id] ?? 0
DirectOrZero(direct, id) == IF id \in DOMAIN direct THEN direct[id] ELSE 0

\* childMap[id] ?? [] that loses the last child
KidsOfShort(childMap, id) ==
  IF id \in DOMAIN childMap
  THEN SubSeq(childMap[id], 1, Len(childMap[id]) - 1) ELSE <<>>

\* childMap[id] ?? []
KidsOf(childMap, id) == IF id \in DOMAIN childMap THEN childMap[id] ELSE <<>>

RECURSIVE dfs(_, _, _, _, _)
RECURSIVE dfsKids(_, _, _, _, _, _)

\* The recursive dfs of rollupSeconds, threading the memo table.  The
\* result is [memo, total, thrown]; thrown is TRUE when the recursion is
\* deeper than the call stack allows (RangeError: Maximum call stack size
\* exceeded), which unwinds every frame without writing the memo.
dfs(childMap, direct, memo, id, depth) ==
  IF depth > MaxStack THEN [memo |-> memo, total |-> 0, thrown |-> TRUE]
  ELSE IF id \in DOMAIN memo
       THEN [memo |-> memo, total |-> memo[id], thrown |-> FALSE]
       ELSE LET r == dfsKids(childMap, direct, memo, KidsOf(childMap, id),
                             DirectOrZero(direct, id), depth)
            IN IF r.thrown THEN r
               ELSE [memo |-> (id :> r.total) @@ r.memo,
                     total |-> r.total, thrown |-> FALSE]

\* for (const k of kids) total += dfs(k)
dfsKids(childMap, direct, memo, kids, total, depth) ==
  IF kids = <<>> THEN [memo |-> memo, total |-> total, thrown |-> FALSE]
  ELSE LET r == dfs(childMap, direct, memo, Head(kids), depth + 1)
       IN IF r.thrown THEN r
          ELSE dfsKids(childMap, direct, r.memo, Tail(kids),
                       total + r.total, depth)

\* ids that also take in the id of a missing category
IdOrderAndOrphan(categories, seen) ==
  <<Orphan>> \o [i \in DOMAIN categories |-> categories[i].id]

\* ids that stop at the first category
IdOrderFirst(categories, seen) ==
  IF categories = <<>> THEN <<>> ELSE <<Head(categories).id>>

\* ids of the categories in first-occurrence order (new Set(categories.map))
RECURSIVE IdOrder(_, _)
IdOrder(categories, seen) ==
  IF categories = <<>> THEN <<>>
  ELSE IF Head(categories).id \in seen THEN IdOrder(Tail(categories), seen)
       ELSE <<Head(categories).id>>
            \o IdOrder(Tail(categories), seen \cup {Head(categories).id})

RECURSIVE rollupEach(_, _, _, _)
\* ids.forEach(id => dfs(id))
rollupEach(childMap, direct, memo, ids) ==
  IF ids = <<>> THEN [status |-> "ok", map |-> memo]
  ELSE LET r == dfs(childMap, direct, memo, Head(ids), 1)
       IN IF r.thrown THEN [status |-> "RangeError", map |-> <<>>]
          ELSE rollupEach(childMap, direct, r.memo, Tail(ids))

\* rollupSeconds(categories, direct): [status, map]
rollupSeconds(categories, direct) ==
  rollupEach(buildChildMap(categories), direct, <<>>, IdOrder(categories, {}))

\* isLeaf(categories, id)
isLeaf(categories, id) ==
  ~ \E i \in DOMAIN categories : categories[i].parentId = id

\* ---------------------------------------------------------------------
\* Harness of rollupSeconds
\* ---------------------------------------------------------------------

NoRet == [status |-> "none"]

\* category lists with unique ids a, b, c in creation order; a parent
\* link may name any id, the category itself or a missing category
CategoryLists ==
  UNION {{[i \in 1..n |-> [id |-> CatPool[i], goalPct |-> Undef,
                           parentId |-> par[i]]]
          : par \in [1..n -> CatIdsUpTo(n) \cup {Null, Orphan}]}
         : n \in 0..MaxCats}

IdsOf(categories) == {categories[i].id : i \in DOMAIN categories}

\* direct mappings: a value in thousandths of a second for some of the ids
DirectMaps(ids) ==
  UNION {[D -> {1000 * v : v \in 0..MaxDirect}] : D \in SUBSET ids}

OrphanMaps == {<<>>, Orphan :> 1000}

InitRollup ==
  /\ op = "none"
  /\ ret = NoRet
  /\ Unmounted
  /\ \E cats \in CategoryLists, o \in OrphanMaps :
       \E d \in DirectMaps(IdsOf(cats)) :
          args = [categories |-> cats, direct |-> d @@ o]

CallRollup ==
  /\ op = "none"
  /\ op' = "rollupSeconds"
  /\ ret' = rollupSeconds(args.categories, args.direct)
  /\ UNCHANGED <<args, appVars>>

NextRollup == CallRollup

SpecRollup == InitRollup /\ [][NextRollup]_vars

\* ---- properties of rollupSeconds

\* ids reached from id by following parent links 1..n times
RECURSIVE AncestorsIn(_, _, _)
AncestorsIn(categories, frontier, n) ==
  IF n = 0 THEN {}
  ELSE LET up == {categories[i].parentId : i \in
                    {j \in DOMAIN categories : categories[j].id \in frontier}}
                 \ {Null}
       IN up \cup AncestorsIn(categories, up, n - 1)

Acyclic(categories) ==
  \A i \in DOMAIN categories :
    categories[i].id \notin
      AncestorsIn(categories, {categories[i].id}, Len(categories))

ChildrenIds(categories, id) ==
  {categories[i].id : i \in {j \in DOMAIN categories : categories[j].parentId = id}}

\* C1: for an acyclic category set and a non-negative direct mapping,
\* rollupSeconds returns for every category id
\* rolled(id) = direct(id) (0 when absent) + the sum of rolled(child) over
\* the categories whose parentId is id.
C1_RollupEquation ==
  (op = "rollupSeconds" /\ Acyclic(args.categories)) =>
    /\ ret.status = "ok"
    /\ \A id \in IdsOf(args.categories) :
         /\ id \in DOMAIN ret.map
         /\ ret.map[id] =
              (IF id \in DOMAIN args.direct THEN args.direct[id] ELSE 0)
              + SumOver(ret.map, ChildrenIds(args.categories, id))

\* C1 witness: parent a with children b and c and no other structure,
\* every direct value non-zero, rolled(a) = direct(a) + rolled(b) + rolled(c)
C1_Witness ==
  /\ op = "rollupSeconds"
  /\ Len(args.categories) = 3
  /\ args.categories[1].parentId = Null
  /\ args.categories[2].parentId = "a"
  /\ args.categories[3].parentId = "a"
  /\ args.direct = ("a" :> 1000) @@ ("b" :> 1000) @@ ("c" :> 1000)
  /\ ret.status = "ok"
  /\ ret.map["a"] = 3000 /\ ret.map["b"] = 1000 /\ ret.map["c"] = 1000

\* C4: when the parent links contain a cycle, rollupSeconds fails with
\* CycleDetected (it neither recurses for ever nor overflows the stack).
C4_CycleDetected ==
  (op = "rollupSeconds" /\ ~Acyclic(args.categories)) =>
    ret.status = "CycleDetected"

\* what the code does on a cycle: the recursion exhausts the call stack
CycleOverflows ==
  (op = "rollupSeconds" /\ ~Acyclic(args.categories)) =>
    ret.status = "RangeError"

\* C14: for an acyclic category set the mapping returned by rollupSeconds
\* has a value for every known category id, 0 for a category without any
\* time, and for every leaf category the rolled value is its direct value.
C14_DefinedForEveryId ==
  (op = "rollupSeconds" /\ Acyclic(args.categories)) =>
    /\ ret.status = "ok"
    /\ IdsOf(args.categories) \subseteq DOMAIN ret.map
    /\ \A id \in IdsOf(args.categories) :
         isLeaf(args.categories, id) =>
           ret.map[id] = (IF id \in DOMAIN args.direct THEN args.direct[id] ELSE 0)

\* C14 witness: a with leaf children b (direct 1 s) and c (no direct entry)
C14_Witness ==
  /\ op = "rollupSeconds"
  /\ Len(args.categories) = 3
  /\ args.categories[1].parentId = Null
  /\ args.categories[2].parentId = "a"
  /\ args.categories[3].parentId = "a"
  /\ DOMAIN args.direct = {"b"}
  /\ args.direct["b"] = 1000
  /\ ret.status = "ok"
  /\ ret.map = ("a" :> 1000) @@ ("b" :> 1000) @@ ("c" :> 0)

\* every parent link names a category of the set
ParentsKnown(categories) ==
  \A i \in DOMAIN categories :
    categories[i].parentId \in IdsOf(categories) \cup {Null}

RootIds(categories) ==
  {categories[i].id : i \in {j \in DOMAIN categories : categories[j].parentId = Null}}

\* C28: for an acyclic category set with unique ids in which every parent
\* link names a category of the set, the rolled seconds of the root
\* categories sum to the direct seconds of all known category ids.
C28_RootsConserveDirect ==
  (op = "rollupSeconds" /\ Acyclic(args.categories)
     /\ ParentsKnown(args.categories)) =>
    /\ ret.status = "ok"
    /\ SumOver(ret.map, RootIds(args.categories))
         = SumOver([id \in IdsOf(args.categories) |->
                      IF id \in DOMAIN args.direct THEN args.direct[id] ELSE 0],
                   IdsOf(args.categories))

\* C28 witness: roots a and c, b a child of a, a direct second on each; the
\* roots' rolled seconds are 2 + 1
C28_Witness ==
  /\ op = "rollupSeconds"
  /\ Len(args.categories) = 3
  /\ args.categories[1].parentId = Null
  /\ args.categories[2].parentId = "a"
  /\ args.categories[3].parentId = Null
  /\ \A id \in {"a", "b", "c"} : id \in DOMAIN args.direct /\ args.direct[id] = 1000
  /\ ret.status = "ok"
  /\ ret.map["a"] + ret.map["c"] = 3000

\* ---- rolling up a rolled mapping a second time

\* the same category ids with every parent link removed
Childless(categories) ==
  [i \in DOMAIN categories |-> [categories[i] EXCEPT !.parentId = Null]]

\* acyclic hierarchies with a direct value for some of their categories
InitRollupTwice ==
  /\ op = "none"
  /\ ret = NoRet
  /\ Unmounted
  /\ \E cats \in {c \in CategoryLists : Acyclic(c)} :
       \E d \in DirectMaps(IdsOf(cats)) :
          args = [categories |-> cats, direct |-> d]

\* rollupSeconds(childless categories, rolled mapping of the first call)
CallRollupAgain ==
  /\ op = "rollupSeconds"
  /\ ret.status = "ok"
  /\ op' = "rollupAgain"
  /\ args' = [categories |-> Childless(args.categories), direct |-> ret.map]
  /\ ret' = rollupSeconds(Childless(args.categories), ret.map)
  /\ UNCHANGED appVars

NextRollupTwice == CallRollup \/ CallRollupAgain

SpecRollupTwice == InitRollupTwice /\ [][NextRollupTwice]_vars

\* C16: rollupSeconds is idempotent: the rolled mapping of an acyclic
\* hierarchy, fed back in as the direct mapping of the same category ids
\* made childless, comes back unchanged.
C16_RollupIdempotent ==
  op = "rollupAgain" => (ret.status = "ok" /\ ret.map = args.direct)

\* C16 witness: the second roll-up of a chain a > b > c with 1 s each
\* returns a = 3 s, b = 2 s, c = 1 s again
C16_Witness ==
  /\ op = "rollupAgain"
  /\ Len(args.categories) = 3
  /\ args.direct = ("a" :> 3000) @@ ("b" :> 2000) @@ ("c" :> 1000)
  /\ ret.map = args.direct

\* ---------------------------------------------------------------------
\* Time window of a range (page.tsx 83-116)
\*
\* Instants of this section are whole hours since the epoch, 1970-01-01
\* 00:00 UTC, a Thursday.  Days are numbered from the epoch, months from 0
\* as getMonth does.  A zone is [base, dst]: its standard offset in hours
\* and whether it has summer time.
\* ---------------------------------------------------------------------

IsLeap(y) == (y % 4 = 0 /\ y % 100 # 0) \/ y % 400 = 0

DaysInYear(y) == IF IsLeap(y) THEN 366 ELSE 365

DaysInMonth(y, m) ==
  IF m = 1 THEN (IF IsLeap(y) THEN 29 ELSE 28)
  ELSE IF m \in {3, 5, 8, 10} THEN 30 ELSE 31

RECURSIVE DayFromYear(_)
\* the day number of 1 January of year y
DayFromYear(y) ==
  IF y = 1970 THEN 0
  ELSE IF y > 1970 THEN DayFromYear(y - 1) + DaysInYear(y - 1)
       ELSE DayFromYear(y + 1) - DaysInYear(y)

RECURSIVE DaysBeforeMonth(_, _)
\* days of year y before its month m
DaysBeforeMonth(y, m) ==
  IF m = 0 THEN 0 ELSE DaysBeforeMonth(y, m - 1) + DaysInMonth(y, m - 1)

\* MakeDay(year, month, date): the day number of a civil date; a date
\* below 1 counts back into the month before
MakeDay(y, m, date) == DayFromYear(y) + DaysBeforeMonth(y, m) + date - 1

RECURSIVE YearFromDay(_, _)
\* the year that holds day n, searched from year y
YearFromDay(n, y) ==
  IF n < DayFromYear(y) THEN YearFromDay(n, y - 1)
  ELSE IF n >= DayFromYear(y + 1) THEN YearFromDay(n, y + 1)
       ELSE y

RECURSIVE MonthFromDay(_, _, _)
\* the month of year y that holds day n, searched from month m
MonthFromDay(n, y, m) ==
  IF n < MakeDay(y, m, 1) + DaysInMonth(y, m) THEN m
  ELSE MonthFromDay(n, y, m + 1)

\* the civil date of day n
CivilFromDay(n) ==
  LET y == YearFromDay(n, 1970)
      m == MonthFromDay(n, y, 0)
  IN [year |-> y, month |-> m, date |-> n - MakeDay(y, m, 1) + 1]

\* 0 Sunday .. 6 Saturday
WeekDay(n) == (n + 4) % 7

\* the last Sunday of month m of year y
LastSunday(y, m) ==
  LET last == MakeDay(y, m, DaysInMonth(y, m))
  IN CHOOSE n \in (last - 6)..last : WeekDay(n) = 0

\* summer time runs from 01:00 UTC of the last Sunday of March to 01:00
\* UTC of the last Sunday of October
InSummerTime(t) ==
  LET y == YearFromDay(t \div 24, 1970)
  IN 24 * LastSunday(y, 2) + 1 <= t /\ t < 24 * LastSunday(y, 9) + 1

\* the zone's offset from UTC at instant t
ZoneOffset(zone, t) ==
  IF zone.dst /\ InSummerTime(t) THEN zone.base + 1 ELSE zone.base

\* the local time of instant t
LocalTime(zone, t) == t + ZoneOffset(zone, t)

\* the instant of a local time: the earlier one when the local time
\* occurs twice, the offset before the change when it is skipped
UTC(zone, local) ==
  IF ZoneOffset(zone, local - (zone.base + 1)) = zone.base + 1
  THEN local - (zone.base + 1)
  ELSE local - zone.base

\* getFullYear / getMonth / getDate, getDay and getHours of new Date(t)
LocalDate(zone, t) == CivilFromDay(LocalTime(zone, t) \div 24)
getDay(zone, t) == WeekDay(LocalTime(zone, t) \div 24)
getHours(zone, t) == LocalTime(zone, t) % 24

\* new Date(year, month, date).getTime()
NewDate(zone, y, m, date) == UTC(zone, 24 * MakeDay(y, m, date))

\* startOfDay(d)
startOfDay(zone, d) ==
  NewDate(zone, LocalDate(zone, d).year, LocalDate(zone, d).month,
          LocalDate(zone, d).date)

\* diff of a week that starts on Sunday
weekDiffSunday(day) == day

\* const diff = (day + 6) % 7
weekDiff(day) == (day + 6) % 7

\* startOfWeek(d): s.setDate(d.getDate() - diff), then s.setHours(0, 0, 0, 0)
startOfWeek(zone, d) ==
  LET diff == weekDiff(getDay(zone, d))
      afterSetDate ==
        UTC(zone, 24 * MakeDay(LocalDate(zone, d).year, LocalDate(zone, d).month,
                               LocalDate(zone, d).date - diff)
                  + getHours(zone, d))
  IN UTC(zone, 24 * (LocalTime(zone, afterSetDate) \div 24))

\* startOfMonth(d)
startOfMonth(zone, d) ==
  NewDate(zone, LocalDate(zone, d).year, LocalDate(zone, d).month, 1)

\* startOfYear(d)
startOfYear(zone, d) == NewDate(zone, LocalDate(zone, d).year, 0, 1)

\* rangeBounds(range) with the value of Date.now() as now; a selector that
\* is none of the five falls to the default label of the switch
rangeBounds(zone, range, now) ==
  [status |-> "ok",
   start |-> CASE range = "Today" -> startOfDay(zone, now)
               [] range = "Week" -> startOfWeek(zone, now)
               [] range = "Month" -> startOfMonth(zone, now)
               [] range = "Year" -> startOfYear(zone, now)
               [] OTHER -> 0,
   end |-> now]

\* ---------------------------------------------------------------------
\* Harness of rangeBounds
\* ---------------------------------------------------------------------

\* the clock reads up to MaxDay days after the epoch: two summers, two
\* turns of the year and the leap day of 1972
MaxDay == 800
NowHours == 24..(24 * MaxDay)

\* a zone west of Greenwich without summer time, one east of it with
Zones == {[base |-> 0 - 5, dst |-> FALSE], [base |-> 1, dst |-> TRUE]}

\* the selectors of type Range, and a value that is none of them, as
\* setRange(p.preferredRange as Range) lets in from the stored preferences
RangeSelectors == {"Today", "Week", "Month", "Year", "All"}
StoredRanges == RangeSelectors \cup {"Quarter"}

InitRange ==
  /\ op = "none"
  /\ ret = NoRet
  /\ Unmounted
  /\ \E zone \in Zones, range \in StoredRanges, now \in NowHours :
       args = [zone |-> zone, range |-> range, now |-> now]

CallRangeBounds ==
  /\ op = "none"
  /\ op' = "rangeBounds"
  /\ ret' = rangeBounds(args.zone, args.range, args.now)
  /\ UNCHANGED <<args, appVars>>

NextRange == CallRangeBounds

SpecRange == InitRange /\ [][NextRange]_vars

\* ---- properties of rangeBounds

\* the local day of instant t and its civil date
DayOf(t) == LocalTime(args.zone, t) \div 24
DateOf(t) == CivilFromDay(DayOf(t))

\* t is the first instant of its local day
IsStartOfDay(t) ==
  /\ LocalTime(args.zone, t) % 24 = 0
  /\ DayOf(t - 1) < DayOf(t)

\* C18: for every range of {Today, Week, Month, Year, All} and every
\* instant now the window has end = now and start = the local start of the
\* calendar day / Monday-based week / month / year that contains now, or 0
\* for All; start <= end; the week starts ((weekday(now) + 6) mod 7) days
\* before now's day, at midnight.
C18_WindowOfRange ==
  (op = "rangeBounds" /\ args.range \in RangeSelectors) =>
    /\ ret.status = "ok"
    /\ ret.end = args.now
    /\ ret.start <= ret.end
    /\ args.range = "All" => ret.start = 0
    /\ args.range # "All" => IsStartOfDay(ret.start)
    /\ args.range = "Today" => DayOf(ret.start) = DayOf(args.now)
    /\ args.range = "Week" =>
         /\ DayOf(ret.start) = DayOf(args.now) - ((WeekDay(DayOf(args.now)) + 6) % 7)
         /\ WeekDay(DayOf(ret.start)) = 1
         /\ DayOf(args.now) - DayOf(ret.start) \in 0..6
    /\ args.range = "Month" =>
         /\ DateOf(ret.start).date = 1
         /\ DateOf(ret.start).month = DateOf(args.now).month
         /\ DateOf(ret.start).year = DateOf(args.now).year
    /\ args.range = "Year" =>
         /\ DateOf(ret.start).date = 1
         /\ DateOf(ret.start).month = 0
         /\ DateOf(ret.start).year = DateOf(args.now).year

\* C18 witness: Sunday 2 January 1972, 10:00 UTC in the zone with summer
\* time; the week started on Monday 27 December 1971, local midnight
C18_Witness ==
  /\ op = "rangeBounds"
  /\ args.range = "Week"
  /\ args.zone.dst
  /\ args.now = 24 * MakeDay(1972, 0, 2) + 10
  /\ ret.start = 24 * MakeDay(1971, 11, 27) - 1
  /\ ret.end = args.now

\* C19: resolving the window of a range selector outside {Today, Week,
\* Month, Year, All} fails with InvalidArgument.
C19_UnknownRangeRejected ==
  (op = "rangeBounds" /\ args.range \notin RangeSelectors) =>
    ret.status = "InvalidArgument"

\* what the code does with such a selector: the window of All
UnknownRangeIsAll ==
  (op = "rangeBounds" /\ args.range \notin RangeSelectors) =>
    (ret.status = "ok" /\ ret.start = 0 /\ ret.end = args.now)

\* ---------------------------------------------------------------------
\* Direct seconds (page.tsx 118-167)
\* ---------------------------------------------------------------------

Max2(x, y) == IF x >= y THEN x ELSE y
Min2(x, y) == IF x <= y THEN x ELSE y

\* overlapMs without the clamp at 0
overlapMsUnclamped(aStart, aEnd, bStart, bEnd) ==
  Min2(aEnd, bEnd) - Max2(aStart, bStart)

\* overlapMs(aStart, aEnd, bStart, bEnd)
overlapMs(aStart, aEnd, bStart, bEnd) ==
  Max2(0, Min2(aEnd, bEnd) - Max2(aStart, bStart))

\* a number used as a condition: undefined and 0 are falsy
Truthy(n) == n # Undef /\ n # 0

\* s.end ?? Date.now(), with a running session given no length
SessionEndAtStart(s, now) == IF s.end = Undef THEN s.start ELSE s.end

\* s.end ?? Date.now()
SessionEnd(s, now) == IF s.end = Undef THEN now ELSE s.end

\* currentElapsed that forgets to test isActive
currentElapsedStale(g, now) ==
  IF Truthy(g.lastStartTime) THEN (now - g.lastStartTime) \div 1000 ELSE 0

\* currentElapsed of a goal: whole seconds since lastStartTime while active
currentElapsed(g, now) ==
  IF g.isActive /\ Truthy(g.lastStartTime)
  THEN (now - g.lastStartTime) \div 1000 ELSE 0

\* (g.totalSeconds || 0) + currentElapsed
goalTotalSeconds(g, now) ==
  (IF Truthy(g.totalSeconds) THEN g.totalSeconds ELSE 0) + currentElapsed(g, now)

\* totals[key] = (totals[key] ?? 0) + v
AddTo(totals, key, v) ==
  (key :> ((IF key \in DOMAIN totals THEN totals[key] ELSE 0) + v)) @@ totals

RECURSIVE addSessionTimes(_, _, _, _, _)
\* for (const s of sessions) ...   (ms / 1000 seconds = ms thousandths)
addSessionTimes(totals, sessions, windowStart, windowEnd, now) ==
  IF sessions = <<>> THEN totals
  ELSE LET s == Head(sessions)
           ms == overlapMs(s.start, SessionEnd(s, now), windowStart, windowEnd)
       IN addSessionTimes(
            IF ms > 0 THEN AddTo(totals, s.categoryId, ms) ELSE totals,
            Tail(sessions), windowStart, windowEnd, now)

RECURSIVE addGoalTimes(_, _, _)
\* for (const g of goals) ...   (whole seconds, not windowed)
addGoalTimes(totals, goals, now) ==
  IF goals = <<>> THEN totals
  ELSE LET g == Head(goals)
           totalSeconds == goalTotalSeconds(g, now)
       IN addGoalTimes(
            IF totalSeconds > 0
            THEN AddTo(totals, g.categoryId, 1000 * totalSeconds) ELSE totals,
            Tail(goals), now)

\* computeDirectSeconds(sessions, windowStart, windowEnd, goals) with the
\* value of Date.now() as now; an omitted goals argument is the empty list
computeDirectSeconds(sessions, windowStart, windowEnd, goals, now) ==
  addGoalTimes(addSessionTimes(<<>>, sessions, windowStart, windowEnd, now),
               goals, now)

\* ---------------------------------------------------------------------
\* Harness of computeDirectSeconds
\* ---------------------------------------------------------------------

MaxTick == 3
Instants == {500 * k : k \in 0..MaxTick}
Latest == 500 * MaxTick
Clock == {Latest - 500, Latest}

SessionPool == <<"s1", "s2">>
GoalPool == <<"g1", "g2">>

SessionLists(n, cats, starts, ends) ==
  UNION {{[i \in 1..k |-> [id |-> SessionPool[i], categoryId |-> f[i].c,
                           start |-> f[i].s, end |-> f[i].e]]
          : f \in [1..k -> [c : cats, s : starts, e : ends]]}
         : k \in 0..n}

\* timer states a goal can be in: never started, stopped with a stale
\* lastStartTime, active since 500, active since 1500
TimerStates ==
  {[isActive |-> FALSE, lastStartTime |-> Undef],
   [isActive |-> FALSE, lastStartTime |-> 500],
   [isActive |-> TRUE, lastStartTime |-> 500],
   [isActive |-> TRUE, lastStartTime |-> 1500]}

GoalLists(n, cats, totals) ==
  UNION {{[i \in 1..k |-> [id |-> GoalPool[i], categoryId |-> f[i].c,
                           completed |-> FALSE, totalSeconds |-> f[i].t,
                           isActive |-> f[i].a.isActive,
                           lastStartTime |-> f[i].a.lastStartTime]]
          : f \in [1..k -> [c : cats, t : totals, a : TimerStates]]}
         : k \in 0..n}

RunningGoal ==
  [id |-> "g1", categoryId |-> "a", completed |-> FALSE, totalSeconds |-> 2,
   isActive |-> TRUE, lastStartTime |-> 500]

\* many sessions with at most one goal, or many goals with at most one
\* session
DirectInputs ==
  {[sessions |-> ss, goals |-> gs]
     : ss \in SessionLists(2, {"a", "b"}, Instants, Instants \cup {Undef}),
       gs \in {<<>>, <<RunningGoal>>}}
  \cup
  {[sessions |-> ss, goals |-> gs]
     : ss \in SessionLists(1, {"a"}, {0, 500}, {1000, Undef}),
       gs \in GoalLists(2, {"a", "b"}, {Undef, 0, 2})}

InitDirect ==
  /\ op = "none"
  /\ ret = NoRet
  /\ Unmounted
  /\ \E in \in DirectInputs, ws \in Instants, we \in Instants, now \in Clock :
       args = [sessions |-> in.sessions, goals |-> in.goals,
               windowStart |-> ws, windowEnd |-> we, now |-> now]

CallDirect ==
  /\ op = "none"
  /\ op' = "computeDirectSeconds"
  /\ ret' = [status |-> "ok",
             map |-> computeDirectSeconds(args.sessions, args.windowStart,
                                          args.windowEnd, args.goals, args.now)]
  /\ UNCHANGED <<args, appVars>>

NextDirect == CallDirect

SpecDirect == InitDirect /\ [][NextDirect]_vars

\* ---- properties of computeDirectSeconds

ValueAt(map, id) == IF id \in DOMAIN map THEN map[id] ELSE 0

\* overlap of session i with the window, in ms
SessionOverlap(i) ==
  LET s == args.sessions[i]
      e == IF s.end = Undef THEN args.now ELSE s.end
      lo == IF s.start >= args.windowStart THEN s.start ELSE args.windowStart
      hi == IF e <= args.windowEnd THEN e ELSE args.windowEnd
  IN IF hi - lo > 0 THEN hi - lo ELSE 0

\* total seconds of goal g at now, per the described rule
GoalTotal(g, now) ==
  (IF g.totalSeconds = Undef THEN 0 ELSE g.totalSeconds)
  + (IF g.isActive THEN (now - g.lastStartTime) \div 1000 ELSE 0)

\* thousandths that the sessions (resp. goals) of category c should add
SessionPart(c) ==
  SumOver([i \in DOMAIN args.sessions |-> SessionOverlap(i)],
          {i \in DOMAIN args.sessions : args.sessions[i].categoryId = c})

GoalPart(goals, c, now) ==
  SumOver([i \in DOMAIN goals |-> 1000 * GoalTotal(goals[i], now)],
          {i \in DOMAIN goals :
             goals[i].categoryId = c /\ GoalTotal(goals[i], now) > 0})

DirectCats == {"a", "b", Orphan}

\* C2: every session adds exactly overlap(start, end ?? now, windowStart,
\* windowEnd) / 1000 seconds to the direct total of its category; a session
\* whose overlap is 0 adds nothing.
C2_SessionsAddOverlap ==
  op = "computeDirectSeconds" =>
    /\ DOMAIN ret.map \subseteq DirectCats
    /\ \A c \in DirectCats :
         ValueAt(ret.map, c) - GoalPart(args.goals, c, args.now) = SessionPart(c)
    /\ \A c \in DirectCats :
         (\A i \in DOMAIN args.sessions :
            args.sessions[i].categoryId = c => SessionOverlap(i) = 0)
         => ValueAt(ret.map, c) = GoalPart(args.goals, c, args.now)

\* C2 witness: two sessions of one category, one partly inside the window
\* and a running one cut by the window end, next to a session that only
\* touches the window
C2_Witness ==
  /\ op = "computeDirectSeconds"
  /\ args.windowStart = 500 /\ args.windowEnd = 1000 /\ args.now = 1500
  /\ args.goals = <<>>
  /\ Len(args.sessions) = 2
  /\ args.sessions[1] = [id |-> "s1", categoryId |-> "a", start |-> 0, end |-> 500]
  /\ args.sessions[2] = [id |-> "s2", categoryId |-> "b", start |-> 500, end |-> Undef]
  /\ ret.map = ("b" :> 500)

\* C3: every goal timer adds total = accumulatedSeconds + (active ?
\* floor((now - lastResume) / 1000) : 0) to its category when total > 0,
\* whatever the window: the goal-timer part of every category's direct
\* seconds is GoalPart, which does not read the window, in every call
\* (the calls range over every window for each sessions, goals and now).
C3_GoalTimeNotWindowed ==
  op = "computeDirectSeconds" =>
    \A c \in DirectCats :
      ValueAt(ret.map, c) - SessionPart(c) = GoalPart(args.goals, c, args.now)

\* C3 witness: an empty window (start = end), a stopped goal with 2
\* accumulated seconds and an active goal resumed 1000 ms before now: 3 s
C3_Witness ==
  /\ op = "computeDirectSeconds"
  /\ args.windowStart = args.windowEnd
  /\ args.now = 1500
  /\ Len(args.goals) = 2
  /\ args.goals[1].categoryId = "a" /\ args.goals[2].categoryId = "a"
  /\ ~args.goals[1].isActive /\ args.goals[1].totalSeconds = 2
  /\ args.goals[1].lastStartTime = 500
  /\ args.goals[2].isActive /\ args.goals[2].lastStartTime = 500
  /\ args.goals[2].totalSeconds = Undef
  /\ args.sessions = <<>>
  /\ ret.map = ("a" :> 3000)

\* ---------------------------------------------------------------------
\* Harness of overlapMs
\* ---------------------------------------------------------------------

\* interval endpoints: the instants and one before 0; intervals may be
\* empty or reversed
Endpoints == Instants \cup {0 - 500}

InitOverlap ==
  /\ op = "none"
  /\ ret = NoRet
  /\ Unmounted
  /\ \E aStart \in Endpoints, aEnd \in Endpoints,
        bStart \in Endpoints, bEnd \in Endpoints :
       args = [aStart |-> aStart, aEnd |-> aEnd, bStart |-> bStart, bEnd |-> bEnd]

CallOverlapMs ==
  /\ op = "none"
  /\ op' = "overlapMs"
  /\ ret' = [status |-> "ok",
             ms |-> overlapMs(args.aStart, args.aEnd, args.bStart, args.bEnd)]
  /\ UNCHANGED <<args, appVars>>

NextOverlap == CallOverlapMs

SpecOverlap == InitOverlap /\ [][NextOverlap]_vars

\* C17: overlapMs(aStart, aEnd, bStart, bEnd) = max(0, min(aEnd, bEnd) -
\* max(aStart, bStart)) for all endpoints; it is never negative, and two
\* intervals that only touch (aEnd = bStart) overlap by 0.
C17_OverlapClamped ==
  op = "overlapMs" =>
    LET lo == IF args.aStart >= args.bStart THEN args.aStart ELSE args.bStart
        hi == IF args.aEnd <= args.bEnd THEN args.aEnd ELSE args.bEnd
    IN /\ ret.ms = (IF hi - lo > 0 THEN hi - lo ELSE 0)
       /\ ret.ms >= 0
       /\ args.aEnd = args.bStart => ret.ms = 0

\* C17 witness: two intervals that only touch,
\* overlapMs(0, 1000, 1000, 1500) = 0
C17_Witness ==
  /\ op = "overlapMs"
  /\ args = [aStart |-> 0, aEnd |-> 1000, bStart |-> 1000, bEnd |-> 1500]
  /\ ret.ms = 0

\* the overlapping self-test: overlapMs(0, 1000, 500, 1500) = 500
OverlapSelfTest ==
  (op = "overlapMs"
     /\ args = [aStart |-> 0, aEnd |-> 1000, bStart |-> 500, bEnd |-> 1500])
  => ret.ms = 500

\* ---------------------------------------------------------------------
\* The totals of the page: directSeconds, then rolledSeconds
\* (page.tsx 1614-1621)
\* ---------------------------------------------------------------------

\* one stopped goal with 2 accumulated seconds under category c
StoppedGoal(c) ==
  [id |-> "g1", categoryId |-> c, completed |-> FALSE, totalSeconds |-> 2,
   isActive |-> FALSE, lastStartTime |-> Undef]

\* category lists of every shape, with at most one session and one goal
\* that name category a or a category that does not exist
InitTotals ==
  /\ op = "none"
  /\ ret = NoRet
  /\ Unmounted
  /\ \E cats \in CategoryLists,
        ss \in SessionLists(1, {"a", Orphan}, {0, 500}, {1000, Undef}),
        gs \in {<<>>, <<StoppedGoal("a")>>, <<StoppedGoal(Orphan)>>} :
       args = [categories |-> cats, sessions |-> ss, goals |-> gs,
               windowStart |-> 0, windowEnd |-> Latest, now |-> Latest]

\* directSeconds = computeDirectSeconds(sessions, windowStart, windowEnd,
\* goals); rolledSeconds = rollupSeconds(categories, directSeconds)
CallTotals ==
  /\ op = "none"
  /\ op' = "totals"
  /\ LET direct == computeDirectSeconds(args.sessions, args.windowStart,
                                        args.windowEnd, args.goals, args.now)
         rolled == rollupSeconds(args.categories, direct)
     IN ret' = [status |-> rolled.status, direct |-> direct, rolled |-> rolled.map]
  /\ UNCHANGED <<args, appVars>>

NextTotals == CallTotals

SpecTotals == InitTotals /\ [][NextTotals]_vars

\* ---- properties of the totals

\* category ids that a session or a goal timer names and no category has
OrphanRefs ==
  ({args.sessions[i].categoryId : i \in DOMAIN args.sessions}
     \cup {args.goals[i].categoryId : i \in DOMAIN args.goals})
  \ IdsOf(args.categories)

\* thousandths of a second that sessions and goal timers give category c
OwnSeconds(c) == SessionPart(c) + GoalPart(args.goals, c, args.now)

RECURSIVE SelfAndDescendants(_, _, _)
\* the ids in frontier and the categories below them, n levels down
SelfAndDescendants(categories, frontier, n) ==
  IF n = 0 THEN frontier
  ELSE SelfAndDescendants(
         categories,
         frontier \cup {categories[i].id : i \in
                          {j \in DOMAIN categories :
                             categories[j].parentId \in frontier}},
         n - 1)

\* C15: a session or goal timer whose category id names no existing
\* category raises no error; its seconds are kept in the direct mapping
\* under that id, the rolled mapping has no entry for that id, and the
\* rolled total of every known category is the time of the known
\* categories at and below it, the same as without the orphan.
C15_OrphansKeptNotRolled ==
  (op = "totals" /\ Acyclic(args.categories)) =>
    /\ ret.status = "ok"
    /\ \A o \in OrphanRefs :
         /\ ValueAt(ret.direct, o) = OwnSeconds(o)
         /\ OwnSeconds(o) > 0 => o \in DOMAIN ret.direct
         /\ o \notin DOMAIN ret.rolled
    /\ \A id \in IdsOf(args.categories) :
         /\ id \in DOMAIN ret.rolled
         /\ ret.rolled[id] =
              SumOver([c \in IdsOf(args.categories) |-> OwnSeconds(c)],
                      SelfAndDescendants(args.categories, {id},
                                         Len(args.categories)))

\* C15 witness: a session of category a and a goal timer of a missing
\* category, which is also named as the parent of b
C15_Witness ==
  /\ op = "totals"
  /\ Acyclic(args.categories)
  /\ Len(args.categories) = 2
  /\ args.categories[1].parentId = Null
  /\ args.categories[2].parentId = Orphan
  /\ Len(args.sessions) = 1 /\ args.sessions[1].categoryId = "a"
  /\ args.goals = <<StoppedGoal(Orphan)>>
  /\ ret.status = "ok"
  /\ ret.direct[Orphan] = 2000
  /\ ret.direct["a"] > 0
  /\ ret.rolled = ("a" :> ret.direct["a"]) @@ ("b" :> 0)

\* ---------------------------------------------------------------------
\* Goal-sum validation (page.tsx 299-333) over the client categories
\* ---------------------------------------------------------------------

\* a stored category row as the client keeps it: goal_pct || undefined,
\* parent_id || undefined; exclude_from_goals is not copied
RowToCategory(row) ==
  [id |-> row.id,
   goalPct |-> IF Truthy(row.goal_pct) THEN row.goal_pct ELSE Undef,
   parentId |-> row.parent_id]

RowsToCategories(rows) == [i \in DOMAIN rows |-> RowToCategory(rows[i])]

\* n ?? 0
OrZero(n) == IF n = Undef THEN 0 ELSE n

NoOverride == [given |-> FALSE, id |-> Null, goal |-> Undef]

\* the goal a sibling counts with, substitution of the override forgotten
SiblingValKept(c, override) == OrZero(c.goalPct)

\* (override && override.id === c.id) ? (override.goal ?? 0) : (c.goalPct ?? 0)
SiblingVal(c, override) ==
  IF override.given /\ override.id = c.id
  THEN OrZero(override.goal) ELSE OrZero(c.goalPct)

RECURSIVE sumLevel(_, _, _, _)
\* the loop of both validators over the categories of one level; level is
\* Null for the roots (c.parentId == null) or the parent's id
sumLevel(categories, level, override, sum) ==
  IF categories = <<>> THEN sum
  ELSE sumLevel(Tail(categories), level, override,
                IF Head(categories).parentId = level
                THEN sum + SiblingVal(Head(categories), override) ELSE sum)

computeChildGoalSum(categories, parentId, override) ==
  LET sum == sumLevel(categories, parentId, override, 0)
      new == IF /\ override.given /\ override.id # Null
                /\ ~ \E i \in DOMAIN categories : categories[i].id = override.id
             THEN OrZero(override.goal) ELSE 0
      add == IF override.given /\ override.id = Null
             THEN OrZero(override.goal) ELSE 0
  IN sum + new + add

computeRootGoalSum(categories, override) ==
  LET sum == sumLevel(categories, Null, override, 0)
      add == IF override.given /\ override.id = Null
             THEN OrZero(override.goal) ELSE 0
      new == IF /\ override.given /\ override.id # Null
                /\ ~ \E i \in DOMAIN categories :
                       /\ categories[i].id = override.id
                       /\ categories[i].parentId = Null
             THEN OrZero(override.goal) ELSE 0
  IN sum + add + new

\* the callers' test with the limit itself refused
ExceedsAtLimit(sum) == sum >= 100

\* the callers' test on the returned sum: if (sum > 100) ... return
Exceeds(sum) == sum > 100

\* ---------------------------------------------------------------------
\* Harness of the validators
\* ---------------------------------------------------------------------

\* stored rows: ids in creation order, every category a root or a child of
\* "a", at most one row flagged exclude_from_goals
RowLists(max, goalValues, flagged) ==
  UNION {{[i \in 1..n |-> [id |-> CatPool[i], goal_pct |-> f[i].g,
                           parent_id |-> f[i].p,
                           exclude_from_goals |-> (CatPool[i] = x)]]
          : f \in [1..n -> [g : goalValues, p : {Null, "a"}]],
            x \in (CatIdsUpTo(n) \cap flagged) \cup {Null}}
         : n \in 0..max}

Overrides(ids, goals) ==
  {NoOverride} \cup {[given |-> TRUE, id |-> i, goal |-> g] : i \in ids, g \in goals}

InitGoalSum ==
  /\ op = "none"
  /\ ret = NoRet
  /\ Unmounted
  /\ \E rows \in RowLists(MaxCats, {Undef, 40, 60}, CatIdsUpTo(MaxCats)) :
       \E o \in Overrides(IdsOf(rows) \cup {Null, Orphan}, {Undef, 50, 70, 71}) :
          args = [rows |-> rows, categories |-> RowsToCategories(rows),
                  override |-> o]

CallRootGoalSum ==
  /\ op = "none"
  /\ op' = "computeRootGoalSum"
  /\ LET sum == computeRootGoalSum(args.categories, args.override)
     IN ret' = [status |-> "ok", level |-> Null, sum |-> sum,
                exceeds |-> Exceeds(sum)]
  /\ UNCHANGED <<args, appVars>>

CallChildGoalSum ==
  /\ op = "none"
  /\ op' = "computeChildGoalSum"
  /\ LET sum == computeChildGoalSum(args.categories, "a", args.override)
     IN ret' = [status |-> "ok", level |-> "a", sum |-> sum,
                exceeds |-> Exceeds(sum)]
  /\ UNCHANGED <<args, appVars>>

NextGoalSum == CallRootGoalSum \/ CallChildGoalSum

SpecGoalSum == InitGoalSum /\ [][NextGoalSum]_vars

\* ---- properties of the validators

Validated == op \in {"computeRootGoalSum", "computeChildGoalSum"}

\* indexes of the siblings at the validated level
LevelRows == {i \in DOMAIN args.rows : args.rows[i].parent_id = ret.level}

\* the candidate is a new category (no id) or an existing sibling of the level
CandidateAtLevel ==
  /\ args.override.given
  /\ \/ args.override.id = Null
     \/ \E i \in LevelRows : args.rows[i].id = args.override.id

\* goals of the level's siblings in S, the edited one left out, plus the
\* candidate's goal
SumWithCandidate(S) ==
  SumOver([i \in DOMAIN args.rows |-> OrZero(args.rows[i].goal_pct)],
          {i \in S : ~(args.override.given /\ args.rows[i].id = args.override.id)})
  + (IF args.override.given THEN OrZero(args.override.goal) ELSE 0)

\* C7: the validator returns the sum of the goals of the siblings at the
\* level with the candidate substituted for the edited category, or added
\* when it is new, an undefined goal counting 0; the write exceeds exactly
\* when the sum is greater than 100.
C7_GoalSumOfLevel ==
  (Validated /\ (CandidateAtLevel \/ ~args.override.given)) =>
    /\ ret.sum = SumWithCandidate(LevelRows)
    /\ ret.exceeds <=> (SumWithCandidate(LevelRows) > 100)

\* C7 witness: roots a = 60 and b = 40, a new root without goal: the sum
\* is exactly 100 and does not exceed
C7_Witness ==
  /\ op = "computeRootGoalSum"
  /\ Len(args.rows) = 2
  /\ args.rows[1].goal_pct = 60 /\ args.rows[2].goal_pct = 40
  /\ args.rows[1].parent_id = Null /\ args.rows[2].parent_id = Null
  /\ args.override = [given |-> TRUE, id |-> Null, goal |-> Undef]
  /\ ret.sum = 100 /\ ~ret.exceeds

\* C8: only the siblings that are not flagged exclude-from-goals count in
\* the sum compared against 100.
C8_ExcludedNotSummed ==
  (Validated /\ (CandidateAtLevel \/ ~args.override.given)) =>
    ret.sum = SumWithCandidate({i \in LevelRows : ~args.rows[i].exclude_from_goals})

RootsAB ==
  /\ Len(args.rows) = 2
  /\ args.rows[1].id = "a" /\ args.rows[1].goal_pct = 60
  /\ args.rows[2].id = "b" /\ args.rows[2].goal_pct = 40
  /\ args.rows[1].parent_id = Null /\ args.rows[2].parent_id = Null

EditA(goal) ==
  /\ op = "computeRootGoalSum"
  /\ RootsAB
  /\ args.override = [given |-> TRUE, id |-> "a", goal |-> goal]

\* C9 as stated: for root siblings a = 60 and b = 40, editing a to 50
\* gives sum 90 / not exceeding, to 70 sum 100 / not exceeding, to 71 sum
\* 101 / exceeding.
C9_AsStated ==
  /\ EditA(50) => (ret.sum = 90 /\ ~ret.exceeds)
  /\ EditA(70) => (ret.sum = 100 /\ ~ret.exceeds)
  /\ EditA(71) => (ret.sum = 101 /\ ret.exceeds)

\* C9 amended: editing a to 50 gives sum 90 / not exceeding, to 70 sum 110
\* / exceeding, to 71 sum 111 / exceeding.
C9_Amended ==
  /\ EditA(50) => (ret.sum = 90 /\ ~ret.exceeds)
  /\ EditA(70) => (ret.sum = 110 /\ ret.exceeds)
  /\ EditA(71) => (ret.sum = 111 /\ ret.exceeds)

\* C9 witness: the edit of a to 70 has been validated
C9_Witness == EditA(70) /\ ret.sum = 110

\* an override with a goal value was validated
GoalProposed == Validated /\ args.override.given /\ args.override.goal # Undef

\* the override's id names a category that is not at the validated level
IdElsewhere ==
  \E i \in DOMAIN args.rows \ LevelRows : args.rows[i].id = args.override.id

\* C29: both validators count the goal of an override exactly once in the
\* returned sum, whether the override has no id, the id of a sibling at the
\* validated level, the id of a category at another level or an id that
\* names no category: the sum is that of the level's other categories plus
\* the override's goal.
C29_OverrideCountedOnce ==
  GoalProposed => ret.sum = SumWithCandidate(LevelRows)

\* what holds: computeRootGoalSum counts it once in the four cases, and
\* computeChildGoalSum in all but that of a category at another level,
\* whose goal it leaves out
OverrideCountedOnceElsewhere ==
  /\ (GoalProposed /\ ~(op = "computeChildGoalSum" /\ IdElsewhere)) =>
       ret.sum = SumWithCandidate(LevelRows)
  /\ (GoalProposed /\ op = "computeChildGoalSum" /\ IdElsewhere) =>
       ret.sum = SumWithCandidate(LevelRows) - args.override.goal

\* ---------------------------------------------------------------------
\* What the engine's functions assign to (page.tsx 124-193, 299-333)
\* ---------------------------------------------------------------------

\* assignments that a roll-up memoizing into its direct argument would make
AssignTargetsIntoDirect(fn) ==
  IF fn = "rollupSeconds" THEN {"direct"} ELSE {}

\* the variables and objects that the body of fn assigns to or pushes
\* into: totals[..] = in computeDirectSeconds, map[key] = / map[key].push
\* (buildChildMap) and memo[id] = in rollupSeconds, sum += in the
\* validators, nothing in isLeaf; all of them are created by the call
AssignTargets(fn) ==
  CASE fn = "computeDirectSeconds" -> {"totals"}
    [] fn = "rollupSeconds" -> {"map", "memo"}
    [] fn \in {"computeRootGoalSum", "computeChildGoalSum"} -> {"sum"}
    [] OTHER -> {}

\* the caller's objects after a call of fn that wrote written into each of
\* its assignment targets
HeapAfter(fn, heap, written) ==
  [o \in DOMAIN heap |-> IF o \in AssignTargets(fn) THEN written ELSE heap[o]]

\* the caller's snapshots: categories, sessions, goal timers and a direct
\* mapping, with the window and the clock
InitFrame ==
  /\ op = "none"
  /\ ret = NoRet
  /\ Unmounted
  /\ \E rows \in RowLists(2, {Undef, 60}, {}),
        ss \in SessionLists(1, {"a", "b"}, {0}, {1000, Undef}),
        gs \in {<<>>, <<RunningGoal>>} :
       \E d \in DirectMaps(IdsOf(rows)) :
          args = [categories |-> RowsToCategories(rows), sessions |-> ss,
                  goals |-> gs, direct |-> d, windowStart |-> 0,
                  windowEnd |-> Latest, now |-> Latest]

\* what a call returns, next to the caller's objects as they were before it
Returned(value) == [status |-> "ok", value |-> value, before |-> args]

FrameComputeDirectSeconds ==
  /\ op = "none"
  /\ op' = "computeDirectSeconds"
  /\ LET value == computeDirectSeconds(args.sessions, args.windowStart,
                                       args.windowEnd, args.goals, args.now)
     IN /\ ret' = Returned(value)
        /\ args' = HeapAfter("computeDirectSeconds", args, value)
  /\ UNCHANGED appVars

FrameRollupSeconds ==
  /\ op = "none"
  /\ op' = "rollupSeconds"
  /\ LET value == rollupSeconds(args.categories, args.direct).map
     IN /\ ret' = Returned(value)
        /\ args' = HeapAfter("rollupSeconds", args, value)
  /\ UNCHANGED appVars

FrameRootGoalSum ==
  /\ op = "none"
  /\ op' = "computeRootGoalSum"
  /\ LET value == computeRootGoalSum(args.categories,
                                     [given |-> TRUE, id |-> Null, goal |-> 10])
     IN /\ ret' = Returned(value)
        /\ args' = HeapAfter("computeRootGoalSum", args, value)
  /\ UNCHANGED appVars

FrameChildGoalSum ==
  /\ op = "none"
  /\ op' = "computeChildGoalSum"
  /\ LET value == computeChildGoalSum(args.categories, "a",
                                      [given |-> TRUE, id |-> "b", goal |-> 10])
     IN /\ ret' = Returned(value)
        /\ args' = HeapAfter("computeChildGoalSum", args, value)
  /\ UNCHANGED appVars

FrameIsLeaf ==
  /\ op = "none"
  /\ op' = "isLeaf"
  /\ LET value == isLeaf(args.categories, "a")
     IN /\ ret' = Returned(value)
        /\ args' = HeapAfter("isLeaf", args, value)
  /\ UNCHANGED appVars

NextFrame ==
  \/ FrameComputeDirectSeconds
  \/ FrameRollupSeconds
  \/ FrameRootGoalSum
  \/ FrameChildGoalSum
  \/ FrameIsLeaf

SpecFrame == InitFrame /\ [][NextFrame]_vars

visibleCategories(categories, currentParentId) ==
  SelectSeq(categories, LAMBDA c : c.parentId = currentParentId)

RECURSIVE reduceSum(_, _, _)
\* visibleCategories.reduce((sum, c) => sum + (rolledSeconds[c.id] ?? 0), 0)
reduceSum(visible, rolledSeconds, sum) ==
  IF visible = <<>> THEN sum
  ELSE reduceSum(Tail(visible), rolledSeconds,
                 sum + ValueAt(rolledSeconds, Head(visible).id))

grandTotalVisible(categories, currentParentId, rolledSeconds) ==
  reduceSum(visibleCategories(categories, currentParentId), rolledSeconds, 0)

\* ---- IEEE 754 double arithmetic of (r / t) * 100 for integers 0 < r < t.
\* A double is [m, e]: m its 53 significand bits, most significant first,
\* e the exponent of the last bit (value = m * 2^e).

RECURSIVE LeadingZeros(_, _)
\* number of 0 bits that open the binary fraction of rem / t
LeadingZeros(rem, t) ==
  IF 2 * rem >= t THEN 0 ELSE 1 + LeadingZeros(2 * rem, t)

RECURSIVE RemAfter(_, _, _)
\* the remainder left after n bits of the long division of rem by t (an
\* exact division leaves 0 from then on)
RemAfter(rem, t, n) ==
  IF rem = 0 \/ n = 0 THEN rem
  ELSE IF n = 1 THEN (IF 2 * rem >= t THEN 2 * rem - t ELSE 2 * rem)
       ELSE RemAfter(RemAfter(rem, t, n \div 2), t, n - (n \div 2))

\* the next n bits of the binary fraction of rem / t (long division)
FracBits(rem, t, n) ==
  [k \in 1..n |-> IF 2 * RemAfter(rem, t, k - 1) >= t THEN 1 ELSE 0]

\* bits, most significant first, plus one (the bits are not all ones)
IncBits(bits) ==
  LET k == CHOOSE i \in DOMAIN bits :
             bits[i] = 0 /\ \A j \in (i + 1)..Len(bits) : bits[j] = 1
  IN [i \in DOMAIN bits |-> IF i < k THEN bits[i] ELSE IF i = k THEN 1 ELSE 0]

\* round to nearest, ties to even: bits kept, the first bit dropped
\* (guard) and whether any later dropped bit is set (sticky)
RoundNearestEven(bits, e, guard, sticky) ==
  IF guard = 1 /\ (sticky \/ bits[Len(bits)] = 1)
  THEN IF \A i \in DOMAIN bits : bits[i] = 1
       THEN [m |-> <<1>> \o [i \in 1..(Len(bits) - 1) |-> 0], e |-> e + 1]
       ELSE [m |-> IncBits(bits), e |-> e]
  ELSE [m |-> bits, e |-> e]

\* the double nearest to r / t, for integers 0 < r < t
DoubleDiv(r, t) ==
  LET z == LeadingZeros(r, t)
      r0 == RemAfter(r, t, z)
      r53 == RemAfter(r0, t, 53)
  IN RoundNearestEven(FracBits(r0, t, 53), 0 - (z + 53),
                      FracBits(r53, t, 1)[1], RemAfter(r53, t, 1) # 0)

RECURSIVE IntOfBits(_)
\* the integer written by bits, most significant first
IntOfBits(bits) ==
  IF bits = <<>> THEN 0
  ELSE IF Len(bits) = 1 THEN bits[1]
       ELSE LET h == Len(bits) \div 2
            IN IntOfBits(SubSeq(bits, 1, h)) * 2 ^ (Len(bits) - h)
               + IntOfBits(SubSeq(bits, h + 1, Len(bits)))

\* the 65 bits 0^12 m as five digits of 13 bits, most significant first
DigitsOf(m) ==
  LET padded == [i \in 1..12 |-> 0] \o m
  IN [k \in 1..5 |-> IntOfBits(SubSeq(padded, 13 * (k - 1) + 1, 13 * k))]

RECURSIVE MulDigits(_, _)
\* digits times the small integer c: the digits of the product and the
\* carry out of the most significant one
MulDigits(digits, c) ==
  IF digits = <<>> THEN [d |-> <<>>, carry |-> 0]
  ELSE LET rest == MulDigits(Tail(digits), c)
           v == Head(digits) * c + rest.carry
       IN [d |-> <<v % 8192>> \o rest.d, carry |-> v \div 8192]

\* the bits of m * c, most significant first, without leading zeros
ProductBits(m, c) ==
  LET prod == MulDigits(DigitsOf(m), c)
      digits == <<prod.carry>> \o prod.d
      all == [i \in 1..(13 * Len(digits)) |->
                (digits[((i - 1) \div 13) + 1] \div 2 ^ (12 - ((i - 1) % 13))) % 2]
      first == CHOOSE i \in DOMAIN all :
                 all[i] = 1 /\ \A j \in 1..(i - 1) : all[j] = 0
  IN SubSeq(all, first, Len(all))

\* the double nearest to x * c, for a double x > 0 and an integer c >= 1
DoubleTimes(x, c) ==
  LET p == ProductBits(x.m, c)
      drop == Len(p) - 53
  IN IF drop = 0 THEN [m |-> p, e |-> x.e]
     ELSE RoundNearestEven(SubSeq(p, 1, 53), x.e + drop, p[54],
                           \E i \in 55..Len(p) : p[i] = 1)

\* Math.round(x) = floor(x + 1/2) of a double 0 < x < 2^52
DoubleRound(x) ==
  LET ib == 53 + x.e
  IN IF ib < 0 THEN 0
     ELSE IntOfBits(SubSeq(x.m, 1, ib)) + x.m[ib + 1]

\* Math.round of the exact quotient, without the double rounding of the
\* division and of the product
MathRoundExact(r, t, c) == (2 * c * r + t) \div (2 * t)

\* Math.round((r / t) * c) as the doubles give it, for integers 0 <= r <= t,
\* t > 0 (0 / t and t / t are exact)
MathRoundOfRatio(r, t, c) ==
  IF r = 0 THEN 0
  ELSE IF r = t THEN c
       ELSE DoubleRound(DoubleTimes(DoubleDiv(r, t), c))

\* sharePct without the scaling to a percentage
sharePctUnscaled(catId, rolledSeconds, grandTotal) ==
  IF grandTotal = 0 THEN 0
  ELSE MathRoundExact(ValueAt(rolledSeconds, catId), grandTotal, 1)

\* sharePct(catId): Math.round(((rolledSeconds[catId] || 0) / grandTotal) * 100)
sharePct(catId, rolledSeconds, grandTotal) ==
  IF grandTotal = 0 THEN 0
  ELSE MathRoundOfRatio(ValueAt(rolledSeconds, catId), grandTotal, 100)

\* ---------------------------------------------------------------------
\* Harness of sharePct
\* ---------------------------------------------------------------------

\* the browsed lists hold up to three categories; rolled seconds are whole
\* seconds (exact as doubles), among them the halves 1 of 8 and 23 of 40
SharePool == <<"a", "b", "c">>
RolledValues == {0, 1000, 7000, 17000, 23000}

InitShare ==
  /\ op = "none"
  /\ ret = NoRet
  /\ Unmounted
  /\ \E rows \in RowLists(Len(SharePool), {Undef}, {"a"}), level \in {Null, "a"} :
       \E rolled \in [IdsOf(rows) -> RolledValues] :
          args = [rows |-> rows, categories |-> RowsToCategories(rows),
                  currentParentId |-> level, rolledSeconds |-> rolled]

CallSharePct ==
  /\ op = "none"
  /\ op' = "sharePct"
  /\ LET total == grandTotalVisible(args.categories, args.currentParentId,
                                    args.rolledSeconds)
         visible == visibleCategories(args.categories, args.currentParentId)
     IN ret' = [status |-> "ok", total |-> total,
                share |-> [id \in IdsOf(visible) |->
                             sharePct(id, args.rolledSeconds, total)]]
  /\ UNCHANGED <<args, appVars>>

NextShare == CallSharePct

SpecShare == InitShare /\ [][NextShare]_vars

\* ---- properties of sharePct

\* indexes of the siblings at the browsed level, flagged or not
VisibleRows ==
  {i \in DOMAIN args.rows : args.rows[i].parent_id = args.currentParentId}

VisibleTotal ==
  SumOver([i \in DOMAIN args.rows |-> args.rolledSeconds[args.rows[i].id]],
          VisibleRows)

\* p is 100 * r / t rounded to the nearest integer, a half rounding up
IsRounded(p, r, t) ==
  /\ 2 * t * p <= 200 * r + t
  /\ 200 * r + t < 2 * t * (p + 1)

\* p is an integer nearest to 100 * r / t (either neighbour of a half)
IsNearest(p, r, t) ==
  /\ 2 * t * p <= 200 * r + t
  /\ 200 * r - t <= 2 * t * p

ShareDenominator ==
  /\ DOMAIN ret.share = {args.rows[i].id : i \in VisibleRows}
  /\ ret.total = VisibleTotal

\* C10: for every visible category sharePct(id) = round(100 *
\* rolled(id) / visibleTotal), visibleTotal summing the rolled seconds of
\* all visible siblings, those flagged exclude-from-goals included; it is
\* an integer in 0..100.
C10_ShareIsRounded ==
  op = "sharePct" =>
    /\ ShareDenominator
    /\ \A id \in DOMAIN ret.share :
         /\ ret.share[id] \in 0..100
         /\ IF VisibleTotal = 0 THEN ret.share[id] = 0
            ELSE IsRounded(ret.share[id], args.rolledSeconds[id], VisibleTotal)

\* What does hold of sharePct (checked under SpecShare next to C10): the
\* share is an integer in 0..100 nearest to 100 * rolled(id) / visibleTotal,
\* either neighbour when that is exactly a half (0 when visibleTotal is 0),
\* and visibleTotal sums all visible siblings, flagged ones included.
ShareOfVisibleTotal ==
  op = "sharePct" =>
    /\ ShareDenominator
    /\ \A id \in DOMAIN ret.share :
         /\ ret.share[id] \in 0..100
         /\ IF VisibleTotal = 0 THEN ret.share[id] = 0
            ELSE IsNearest(ret.share[id], args.rolledSeconds[id], VisibleTotal)

\* the sharePct values of the siblings at the browsed level, added up
ShareSum ==
  SumOver([i \in DOMAIN args.rows |->
             IF i \in VisibleRows THEN ret.share[args.rows[i].id] ELSE 0],
          VisibleRows)

ChartCategories ==
  <<[id |-> "a", goalPct |-> Undef, parentId |-> Null],
    [id |-> "b", goalPct |-> Undef, parentId |-> "a"]>>

\* chartHover && hoverNowRef.current ? hoverNowRef.current : windowEnd
endForChart(a) ==
  IF a.chartHover /\ Truthy(a.hoverNow) THEN a.hoverNow ELSE a.windowEnd

\* directSecondsChart and rolledSecondsChart of one render, Date.now()
\* being a.now
renderChart(a) ==
  LET direct == computeDirectSeconds(a.sessions, a.windowStart,
                                     endForChart(a), a.goals, a.now)
  IN [status |-> "ok", direct |-> direct,
      rolled |-> rollupSeconds(ChartCategories, direct).map]

\* the first render: the clock reads 500, nothing is hovered, the sessions
\* and goal timers were started at or before that instant
InitChart ==
  /\ op = "chart"
  /\ Unmounted
  /\ \E ss \in SessionLists(1, {"a", "b"}, {0, 500}, {500, Undef}),
        gs \in GoalLists(1, {"a", "b"}, {Undef, 2}), ws \in {0, 500} :
       /\ \A i \in DOMAIN gs : gs[i].lastStartTime <= 500
       /\ LET a == [sessions |-> ss, goals |-> gs, windowStart |-> ws,
                    windowEnd |-> 500, now |-> 500, chartHover |-> FALSE,
                    hoverNow |-> Null]
          IN args = a /\ ret = renderChart(a)

\* onMouseEnter of the chart: setChartHover(true), hoverNowRef.current =
\* Date.now(), and the render that follows
ChartMouseEnter ==
  /\ op = "chart"
  /\ ~ args.chartHover
  /\ \E d \in {0, 500} :
       /\ args.now + d <= Latest
       /\ args' = [args EXCEPT !.now = @ + d, !.chartHover = TRUE,
                               !.hoverNow = args.now + d]
  /\ ret' = renderChart(args')
  /\ UNCHANGED <<op, appVars>>

\* onMouseLeave of the chart: setChartHover(false), hoverNowRef.current =
\* null, and the render that follows
ChartMouseLeave ==
  /\ op = "chart"
  /\ args.chartHover
  /\ \E d \in {0, 500} :
       /\ args.now + d <= Latest
       /\ args' = [args EXCEPT !.now = @ + d, !.chartHover = FALSE,
                               !.hoverNow = Null]
  /\ ret' = renderChart(args')
  /\ UNCHANGED <<op, appVars>>

\* the interval's setTick after the clock has advanced: rangeBounds gives
\* the window its new end and every memo is computed again
setTick ==
  /\ op = "chart"
  /\ \E d \in {500, 1000} :
       /\ args.now + d <= Latest
       /\ args' = [args EXCEPT !.now = @ + d, !.windowEnd = args.now + d]
  /\ ret' = renderChart(args')
  /\ UNCHANGED <<op, appVars>>

NextChart == ChartMouseEnter \/ ChartMouseLeave \/ setTick

SpecChart == InitChart /\ [][NextChart]_vars

\* the chart's totals with the freeze instant in the place of now
ChartAtFreeze ==
  LET direct == computeDirectSeconds(args.sessions, args.windowStart,
                                     args.hoverNow, args.goals, args.hoverNow)
  IN [direct |-> direct, rolled |-> rollupSeconds(ChartCategories, direct).map]

\* C12: while the chart is hovered (freeze instant f captured at
\* mouse-enter) and sessions and goal timers are unchanged, the chart's
\* direct and rolled seconds of every category stay what they were at f as
\* the clock advances: f stands for now in the live elapsed time of the
\* running session and of every active goal timer.
C12_ChartFrozenWhileHovered ==
  (op = "chart" /\ args.chartHover) =>
    /\ ret.direct = ChartAtFreeze.direct
    /\ ret.rolled = ChartAtFreeze.rolled

\* What does hold while hovered: the totals are frozen when no goal timer
\* is active (the running session is cut at f by the window's end).
ChartFrozenWithoutActiveGoals ==
  (op = "chart" /\ args.chartHover
     /\ \A i \in DOMAIN args.goals : ~ args.goals[i].isActive) =>
    /\ ret.direct = ChartAtFreeze.direct
    /\ ret.rolled = ChartAtFreeze.rolled

\* ---------------------------------------------------------------------
\* Timer handlers of the page component (page.tsx 554-594, 1654-1854)
\* ---------------------------------------------------------------------

\* the handlers below all run at one instant: what they decide does not
\* depend on how long a timer has run
Now == Latest

\* ids the store and uid() give to sessions, in creation order
SessionIds == <<"s1", "s2", "s3">>

\* handler calls that can await the store at the same time
TaskPool == <<"t1", "t2">>

Reverse(s) == [i \in 1..Len(s) |-> s[Len(s) + 1 - i]]

\* a stored session as the client keeps it: end_time ? getTime : undefined
RowToSession(s) ==
  [id |-> s.id, categoryId |-> s.category_id, start |-> s.start_time,
   end |-> IF s.end_time = Undef THEN Undef ELSE s.end_time]

\* a stored goal as the client keeps it: total_seconds || 0,
\* is_active || false, last_start_time ? getTime : undefined
RowToGoal(g) ==
  [id |-> g.id, categoryId |-> g.category_id, completed |-> g.completed,
   totalSeconds |-> IF Truthy(g.total_seconds) THEN g.total_seconds ELSE 0,
   isActive |-> g.is_active,
   lastStartTime |-> IF g.last_start_time = Undef THEN Undef
                     ELSE g.last_start_time]

\* dataService.getSessions: the rows, latest start_time first (rows are
\* kept in creation order)
getSessions(rows) == Reverse(rows)

\* dataService.getGoals: the rows, latest created_at first
getGoals(rows) == Reverse(rows)

\* dataService.getCategories: the rows, earliest created_at first
getCategories(rows) == rows

\* one awaited store call of a handler, or the setState that follows one
StoreCall(call, id, value) == [call |-> call, id |-> id, value |-> value]

\* sessions.filter((s) => !s.end); find takes its first element
RunningSessions(sessions) == SelectSeq(sessions, LAMBDA s : ~Truthy(s.end))

\* stopRunning, authenticated: end the running session the closure sees,
\* clear activeId, refetch the sessions
stopRunning(st) ==
  IF RunningSessions(st.sessions) = <<>> THEN <<>>
  ELSE <<StoreCall("updateSession", Head(RunningSessions(st.sessions)).id, Now),
         StoreCall("getSessions", Null, 0),
         StoreCall("setSessions", Null, 0)>>

\* (goal.totalSeconds || 0) + floor((now - lastStartTime) / 1000)
newTotal(goal) ==
  (IF Truthy(goal.totalSeconds) THEN goal.totalSeconds ELSE 0)
  + (IF Truthy(goal.lastStartTime) THEN (Now - goal.lastStartTime) \div 1000
     ELSE 0)

\* the loop over the active goals and the refetch after it
stopGoals(activeGoals) ==
  IF activeGoals = <<>> THEN <<>>
  ELSE [i \in DOMAIN activeGoals |->
          StoreCall("updateGoalStop", activeGoals[i].id, newTotal(activeGoals[i]))]
       \o <<StoreCall("getGoals", Null, 0), StoreCall("setGoals", Null, 0)>>

\* stopAllActiveTimers, authenticated
stopAllActiveTimers(st) ==
  stopRunning(st) \o stopGoals(SelectSeq(st.goals, LAMBDA g : g.isActive))

\* [categoryId, ...childIds]
allRelatedIds(st, categoryId) ==
  {categoryId} \cup {st.categories[i].id : i \in
                       {j \in DOMAIN st.categories :
                          st.categories[j].parentId = categoryId}}

activeGoalsUnder(st, categoryId) ==
  SelectSeq(st.goals, LAMBDA g : g.isActive
                                 /\ g.categoryId \in allRelatedIds(st, categoryId))

\* stopActiveGoalsUnder, authenticated
stopActiveGoalsUnder(st, categoryId) == stopGoals(activeGoalsUnder(st, categoryId))

\* startCategory, authenticated
startCategory(st, id) ==
  stopAllActiveTimers(st)
  \o <<StoreCall("createSession", id, Now), StoreCall("getSessions", id, 0),
       StoreCall("setSessions", Null, 0)>>

isCategoryHighlighted(st, catId) ==
  \/ st.activeId = catId
  \/ \E i \in DOMAIN st.categories :
       st.categories[i].parentId = catId /\ st.activeId = st.categories[i].id
  \/ activeGoalsUnder(st, catId) # <<>>

\* toggleCategory, authenticated
toggleCategory(st, id) ==
  IF st.activeId = id THEN stopRunning(st)
  ELSE IF isCategoryHighlighted(st, id)
       THEN stopRunning(st) \o stopActiveGoalsUnder(st, id)
       ELSE startCategory(st, id)

\* toggleGoalTimer that starts the goal's timer and stops no other
toggleGoalTimerOnly(st, id) ==
  <<StoreCall("updateGoalStart", id, Now), StoreCall("getGoals", Null, 0),
    StoreCall("setGoals", Null, 0)>>

\* toggleGoalTimer, authenticated, of a goal that is not completed
toggleGoalTimer(st, id) ==
  stopAllActiveTimers(st)
  \o <<StoreCall("updateGoalStart", id, Now), StoreCall("getGoals", Null, 0),
       StoreCall("setGoals", Null, 0)>>

\* ---- the same handlers without a signed-in user: setState updaters only

\* stopRunning: the last session of prev with end == null is ended
stopRunningLocal(st) ==
  IF RunningSessions(st.sessions) = <<>> THEN st
  ELSE LET open == {i \in DOMAIN st.sessions : st.sessions[i].end = Undef}
           last == CHOOSE i \in open : \A j \in open : j <= i
       IN [st EXCEPT !.sessions =
             IF open = {} THEN @ ELSE [@ EXCEPT ![last].end = Now],
                     !.activeId = Null]

\* setGoals(prev => prev.map(...)): the goals with ids in stopped are stopped
stopGoalsLocal(st, stopped) ==
  [st EXCEPT !.goals =
     [i \in DOMAIN st.goals |->
        IF st.goals[i].id \in stopped
        THEN [st.goals[i] EXCEPT !.isActive = FALSE,
                                 !.totalSeconds = newTotal(st.goals[i]),
                                 !.lastStartTime = Undef]
        ELSE st.goals[i]]]

stopAllActiveTimersLocal(st) ==
  stopGoalsLocal(stopRunningLocal(st),
                 {st.goals[i].id : i \in {j \in DOMAIN st.goals : st.goals[j].isActive}})

stopActiveGoalsUnderLocal(st, closure, categoryId) ==
  stopGoalsLocal(st, {g.id : g \in {activeGoalsUnder(closure, categoryId)[i] :
                                      i \in DOMAIN activeGoalsUnder(closure, categoryId)}})

startCategoryLocal(st, id) ==
  LET stopped == stopAllActiveTimersLocal(st)
  IN [stopped EXCEPT
        !.sessions = Append(@, [id |-> SessionIds[Len(@) + 1], categoryId |-> id,
                                start |-> Now, end |-> Undef]),
        !.activeId = id]

toggleCategoryLocal(st, id) ==
  IF st.activeId = id THEN stopRunningLocal(st)
  ELSE IF isCategoryHighlighted(st, id)
       THEN stopActiveGoalsUnderLocal(stopRunningLocal(st), st, id)
       ELSE startCategoryLocal(st, id)

toggleGoalTimerLocal(st, id) ==
  LET stopped == stopAllActiveTimersLocal(st)
  IN [stopped EXCEPT !.goals =
        [i \in DOMAIN @ |->
           IF @[i].id = id
           THEN [@[i] EXCEPT !.isActive = TRUE, !.lastStartTime = Now]
           ELSE @[i]]]

\* ---------------------------------------------------------------------
\* The page component with its timers: handlers started by the user and
\* the store calls they await
\* ---------------------------------------------------------------------

NewTask(calls) ==
  [calls |-> calls, sessionsData |-> <<>>, goalsData |-> <<>>,
   categoriesData |-> <<>>]

Creates(calls) == Len(SelectSeq(calls, LAMBDA c : c.call = "createSession"))

\* createSession calls that handlers in flight have still to make
PendingCreates ==
  SumOver([i \in DOMAIN tasks |-> Creates(tasks[i].calls)], DOMAIN tasks)

WithoutTask(i) == [j \in 1..(Len(tasks) - 1) |-> IF j < i THEN tasks[j] ELSE tasks[j + 1]]

\* the call at the head of task i is over
Resume(i, task) ==
  tasks' = IF Len(task.calls) = 1 THEN WithoutTask(i)
           ELSE [tasks EXCEPT ![i] = [task EXCEPT !.calls = Tail(@)]]

NextCall(i) == Head(tasks[i].calls)

\* the two stored categories of the timer specifications: a and its child b
TimerCategoryRows ==
  <<[id |-> "a", goal_pct |-> 60, parent_id |-> Null, exclude_from_goals |-> FALSE],
    [id |-> "b", goal_pct |-> Undef, parent_id |-> "a", exclude_from_goals |-> FALSE]>>

\* the two stored goals: g1 under b, and g2 under a, which is completed
TimerGoalRows ==
  <<[id |-> "g1", category_id |-> "b", completed |-> FALSE, total_seconds |-> 0,
     is_active |-> FALSE, last_start_time |-> Undef],
    [id |-> "g2", category_id |-> "a", completed |-> TRUE, total_seconds |-> 0,
     is_active |-> FALSE, last_start_time |-> Undef]>>

\* after initializeApp: the stored rows loaded when signed in, the same
\* records kept by the client alone otherwise; nothing is running
InitTimers ==
  /\ args = <<>>
  /\ op = "none"
  /\ ret = NoRet
  /\ isAuthenticated \in BOOLEAN
  /\ db = IF isAuthenticated
          THEN [categories |-> TimerCategoryRows, sessions |-> <<>>,
                goals |-> TimerGoalRows]
          ELSE [categories |-> <<>>, sessions |-> <<>>, goals |-> <<>>]
  /\ state = [categories |-> RowsToCategories(getCategories(TimerCategoryRows)),
              sessions |-> <<>>,
              goals |-> [i \in DOMAIN TimerGoalRows |->
                           RowToGoal(getGoals(TimerGoalRows)[i])],
              activeId |-> Null]
  /\ tasks = <<>>

\* the user clicks a category card
CallToggleCategory ==
  /\ \E id \in IdsOf(state.categories) :
       IF isAuthenticated
       THEN /\ toggleCategory(state, id) # <<>>
            /\ Len(tasks) < Len(TaskPool)
            /\ Len(db.sessions) + PendingCreates + Creates(toggleCategory(state, id))
                 <= Len(SessionIds)
            /\ tasks' = Append(tasks, NewTask(toggleCategory(state, id)))
            /\ UNCHANGED <<state, db>>
       ELSE /\ (state.activeId = id \/ isCategoryHighlighted(state, id)
                \/ Len(state.sessions) < Len(SessionIds))
            /\ state' = toggleCategoryLocal(state, id)
            /\ UNCHANGED <<db, tasks>>
  /\ UNCHANGED <<isAuthenticated, harnessVars>>

\* the user clicks the timer of a goal; a missing or completed goal returns
CallToggleGoalTimer ==
  /\ \E i \in DOMAIN state.goals :
       /\ ~state.goals[i].completed
       /\ IF isAuthenticated
          THEN /\ Len(tasks) < Len(TaskPool)
               /\ tasks' = Append(tasks, NewTask(toggleGoalTimer(state, state.goals[i].id)))
               /\ UNCHANGED <<state, db>>
          ELSE /\ state' = toggleGoalTimerLocal(state, state.goals[i].id)
               /\ UNCHANGED <<db, tasks>>
  /\ UNCHANGED <<isAuthenticated, harnessVars>>

\* dataService.updateSession(id, {end_time}) reaches the store
updateSession ==
  /\ \E i \in DOMAIN tasks :
       /\ NextCall(i).call = "updateSession"
       /\ db' = [db EXCEPT !.sessions =
                   [k \in DOMAIN db.sessions |->
                      IF db.sessions[k].id = NextCall(i).id
                      THEN [db.sessions[k] EXCEPT !.end_time = NextCall(i).value]
                      ELSE db.sessions[k]]]
       /\ Resume(i, tasks[i])
  /\ UNCHANGED <<state, isAuthenticated, harnessVars>>

\* dataService.createSession({category_id, start_time, end_time: null})
createSession ==
  /\ \E i \in DOMAIN tasks :
       /\ NextCall(i).call = "createSession"
       /\ db' = [db EXCEPT !.sessions =
                   Append(@, [id |-> SessionIds[Len(@) + 1],
                              category_id |-> NextCall(i).id,
                              start_time |-> NextCall(i).value,
                              end_time |-> Undef])]
       /\ Resume(i, tasks[i])
  /\ UNCHANGED <<state, isAuthenticated, harnessVars>>

\* the handler resumes, sets activeId and calls dataService.getSessions
getSessionsCall ==
  /\ \E i \in DOMAIN tasks :
       /\ NextCall(i).call = "getSessions"
       /\ state' = [state EXCEPT !.activeId = NextCall(i).id]
       /\ Resume(i, [tasks[i] EXCEPT !.sessionsData = getSessions(db.sessions)])
  /\ UNCHANGED <<db, isAuthenticated, harnessVars>>

\* setSessions(sessionsData.map(...))
setSessions ==
  /\ \E i \in DOMAIN tasks :
       /\ NextCall(i).call = "setSessions"
       /\ state' = [state EXCEPT !.sessions =
                      [k \in DOMAIN tasks[i].sessionsData |->
                         RowToSession(tasks[i].sessionsData[k])]]
       /\ Resume(i, tasks[i])
  /\ UNCHANGED <<db, isAuthenticated, harnessVars>>

\* dataService.updateGoal(id, ...) reaches the store: a stop writes
\* is_active false, the new total and no last_start_time; a start writes
\* is_active true and last_start_time; a completion toggle writes
\* completed, is_active false, the final total and no last_start_time
updateGoal ==
  /\ \E i \in DOMAIN tasks :
       /\ NextCall(i).call \in {"updateGoalStop", "updateGoalStart",
                                "updateGoalCompletion"}
       /\ db' = [db EXCEPT !.goals =
                   [k \in DOMAIN db.goals |->
                      IF db.goals[k].id # NextCall(i).id THEN db.goals[k]
                      ELSE IF NextCall(i).call = "updateGoalStop"
                           THEN [db.goals[k] EXCEPT !.is_active = FALSE,
                                                    !.total_seconds = NextCall(i).value,
                                                    !.last_start_time = Undef]
                      ELSE IF NextCall(i).call = "updateGoalCompletion"
                           THEN [db.goals[k] EXCEPT
                                   !.completed = NextCall(i).value.completed,
                                   !.is_active = FALSE,
                                   !.total_seconds = NextCall(i).value.total_seconds,
                                   !.last_start_time = Undef]
                           ELSE [db.goals[k] EXCEPT !.is_active = TRUE,
                                                    !.last_start_time = NextCall(i).value]]]
       /\ Resume(i, tasks[i])
  /\ UNCHANGED <<state, isAuthenticated, harnessVars>>

\* dataService.getGoals()
getGoalsCall ==
  /\ \E i \in DOMAIN tasks :
       /\ NextCall(i).call = "getGoals"
       /\ Resume(i, [tasks[i] EXCEPT !.goalsData = getGoals(db.goals)])
  /\ UNCHANGED <<state, db, isAuthenticated, harnessVars>>

\* setGoals(() => goalsData.map(...))
setGoals ==
  /\ \E i \in DOMAIN tasks :
       /\ NextCall(i).call = "setGoals"
       /\ state' = [state EXCEPT !.goals =
                      [k \in DOMAIN tasks[i].goalsData |->
                         RowToGoal(tasks[i].goalsData[k])]]
       /\ Resume(i, tasks[i])
  /\ UNCHANGED <<db, isAuthenticated, harnessVars>>

\* the sessions subscription: a change of the stored sessions is pushed
subscribeToSessions ==
  /\ isAuthenticated
  /\ state.sessions # [k \in DOMAIN db.sessions |-> RowToSession(getSessions(db.sessions)[k])]
  /\ state' = [state EXCEPT !.sessions =
                 [k \in DOMAIN db.sessions |-> RowToSession(getSessions(db.sessions)[k])]]
  /\ UNCHANGED <<db, tasks, isAuthenticated, harnessVars>>

\* the goals subscription
subscribeToGoals ==
  /\ isAuthenticated
  /\ state.goals # [k \in DOMAIN db.goals |-> RowToGoal(getGoals(db.goals)[k])]
  /\ state' = [state EXCEPT !.goals =
                 [k \in DOMAIN db.goals |-> RowToGoal(getGoals(db.goals)[k])]]
  /\ UNCHANGED <<db, tasks, isAuthenticated, harnessVars>>

NextTimers ==
  \/ CallToggleCategory
  \/ CallToggleGoalTimer
  \/ updateSession
  \/ createSession
  \/ getSessionsCall
  \/ setSessions
  \/ updateGoal
  \/ getGoalsCall
  \/ setGoals
  \/ subscribeToSessions
  \/ subscribeToGoals

SpecTimers == InitTimers /\ [][NextTimers]_vars

\* ---- properties of the timers

RunningCount(sessions) ==
  Cardinality({i \in DOMAIN sessions : sessions[i].end = Undef})

\* C5: in every state reachable by any interleaving of the start/stop
\* handlers at most one session of the session collection is running (has
\* no end).
C5_AtMostOneRunning == RunningCount(state.sessions) <= 1

\* ---------------------------------------------------------------------
\* Goal timers that were started earlier: the handlers that stop them
\* (page.tsx 554-635, 1734-1829)
\* ---------------------------------------------------------------------

\* goals.find(g => g.id === id)
goalOf(st, id) == st.goals[CHOOSE i \in DOMAIN st.goals : st.goals[i].id = id]

\* finalTotalSeconds of toggleGoalCompletion
finalTotalSeconds(goal) ==
  (IF Truthy(goal.totalSeconds) THEN goal.totalSeconds ELSE 0)
  + (IF ~goal.completed /\ goal.isActive /\ Truthy(goal.lastStartTime)
     THEN (Now - goal.lastStartTime) \div 1000 ELSE 0)

\* toggleGoalCompletion, authenticated
toggleGoalCompletion(st, id) ==
  <<StoreCall("updateGoalCompletion", id,
              [completed |-> ~goalOf(st, id).completed,
               total_seconds |-> finalTotalSeconds(goalOf(st, id))]),
    StoreCall("getGoals", Null, 0), StoreCall("setGoals", Null, 0)>>

\* toggleGoalCompletion without a signed-in user:
\* {...g, completed: !g.completed, isActive: false}
toggleGoalCompletionLocal(st, id) ==
  [st EXCEPT !.goals =
     [i \in DOMAIN st.goals |->
        IF st.goals[i].id = id
        THEN [st.goals[i] EXCEPT !.completed = ~st.goals[i].completed,
                                 !.isActive = FALSE]
        ELSE st.goals[i]]]

\* the user clicks the completion mark of a goal
CallToggleGoalCompletion ==
  /\ \E i \in DOMAIN state.goals :
       IF isAuthenticated
       THEN /\ Len(tasks) < Len(TaskPool)
            /\ tasks' = Append(tasks, NewTask(toggleGoalCompletion(state, state.goals[i].id)))
            /\ UNCHANGED <<state, db>>
       ELSE /\ state' = toggleGoalCompletionLocal(state, state.goals[i].id)
            /\ UNCHANGED <<db, tasks>>
  /\ UNCHANGED <<isAuthenticated, harnessVars>>

\* the stored goals of this specification: g1 under b, whose timer may
\* have been started at 500 with 0 or 2 seconds accumulated, and g2 under a
GoalTimerRows ==
  {<<[id |-> "g1", category_id |-> "b", completed |-> FALSE, total_seconds |-> t,
      is_active |-> a, last_start_time |-> IF a THEN 500 ELSE Undef],
     [id |-> "g2", category_id |-> "a", completed |-> c, total_seconds |-> 0,
      is_active |-> FALSE, last_start_time |-> Undef]>>
     : t \in {0, 2}, a \in BOOLEAN, c \in BOOLEAN}

\* after initializeApp at the instant Now, with the rows above
InitGoalTimers ==
  /\ args = <<>>
  /\ op = "none"
  /\ ret = NoRet
  /\ isAuthenticated \in BOOLEAN
  /\ \E rows \in GoalTimerRows :
       /\ db = IF isAuthenticated
               THEN [categories |-> TimerCategoryRows, sessions |-> <<>>,
                     goals |-> rows]
               ELSE [categories |-> <<>>, sessions |-> <<>>, goals |-> <<>>]
       /\ state = [categories |-> RowsToCategories(getCategories(TimerCategoryRows)),
                   sessions |-> <<>>,
                   goals |-> [i \in DOMAIN rows |-> RowToGoal(getGoals(rows)[i])],
                   activeId |-> Null]
  /\ tasks = <<>>

\* one handler at a time: the next click comes when the handler of the
\* previous one has returned (interleaved handlers are SpecTimers' subject)
ClickCategory == tasks = <<>> /\ CallToggleCategory
ClickGoalTimer == tasks = <<>> /\ CallToggleGoalTimer
ClickGoalCompletion == tasks = <<>> /\ CallToggleGoalCompletion

NextGoalTimers ==
  \/ ClickCategory
  \/ ClickGoalTimer
  \/ ClickGoalCompletion
  \/ updateSession
  \/ createSession
  \/ getSessionsCall
  \/ setSessions
  \/ updateGoal
  \/ getGoalsCall
  \/ setGoals
  \/ subscribeToSessions
  \/ subscribeToGoals

SpecGoalTimers == InitGoalTimers /\ [][NextGoalTimers]_vars

\* ---- properties of the goal timers

\* the goal with this id in the client's goal collection st
HasGoal(st, id) == \E i \in DOMAIN st.goals : st.goals[i].id = id

\* a step treats the timer of every goal as the claim describes
StopStep ==
  \A id \in {"g1", "g2"} :
    (HasGoal(state, id) /\ HasGoal(state', id)) =>
      LET before == goalOf(state, id)
          after == goalOf(state', id)
      IN /\ (before.isActive /\ ~after.isActive) =>
              /\ after.totalSeconds >= before.totalSeconds
              /\ after.totalSeconds = newTotal(before)
              /\ after.lastStartTime = Undef
         /\ (~before.isActive /\ after.isActive) =>
              after.lastStartTime # Undef

\* C13: every step that takes a goal timer from active to inactive leaves
\* its accumulated seconds no smaller, grown by floor((now - lastResume) /
\* 1000), and clears its last-resume instant; every step that activates a
\* goal timer sets its last-resume instant.
C13_StopAccumulatesAndClears == [][StopStep]_vars

\* What does hold: the same of every step of a signed-in user, and of every
\* local step that is not a completion toggle.
StopAccumulatesElsewhere ==
  [][(isAuthenticated
        \/ \A i \in DOMAIN state.goals :
             state.goals[i].completed = state'.goals[i].completed)
       => StopStep]_vars

\* ---- the timer click of a goal row, its outcome recorded

\* toggleGoalTimer(id): a completed goal returns at line 556; otherwise
\* stopAllActiveTimers and the start of the goal's timer
PressGoalTimer ==
  /\ tasks = <<>>
  /\ \E i \in DOMAIN state.goals :
       LET goal == state.goals[i] IN
       /\ op' = "toggleGoalTimer"
       /\ args' = [id |-> goal.id]
       /\ ret' = [status |-> IF goal.completed THEN "returned" ELSE "called",
                  before |-> goal]
       /\ IF goal.completed
          THEN UNCHANGED <<state, db, tasks>>
          ELSE IF isAuthenticated
               THEN /\ tasks' = <<NewTask(toggleGoalTimer(state, goal.id))>>
                    /\ UNCHANGED <<state, db>>
               ELSE /\ state' = toggleGoalTimerLocal(state, goal.id)
                    /\ UNCHANGED <<db, tasks>>
  /\ UNCHANGED isAuthenticated

NextPress ==
  \/ PressGoalTimer
  \/ updateGoal
  \/ getGoalsCall
  \/ setGoals
  \/ subscribeToGoals

SpecPress == InitGoalTimers /\ [][NextPress]_vars

\* a timer click on a goal that is not completed has completed
PressCompleted ==
  /\ op = "toggleGoalTimer"
  /\ ret.status = "called"
  /\ tasks = <<>>

\* C26: once toggleGoalTimer has completed for a goal that is not
\* completed, the goal's timer is inactive if it was active at the call
\* (the row titled "Click to stop timer") and active if it was inactive.
C26_TimerToggles ==
  PressCompleted =>
    goalOf(state, args.id).isActive = ~ret.before.isActive

\* what holds: the timer is active after every such call, and a completed
\* goal is left as it was
TimerActiveAfterPress ==
  /\ PressCompleted => goalOf(state, args.id).isActive
  /\ (op = "toggleGoalTimer" /\ ret.status = "returned") =>
       goalOf(state, args.id) = ret.before

\* ---- handlers called one after the other with no timer active at first

\* the initial states of the goal timers in which no timer is active
InitIdle ==
  /\ InitGoalTimers
  /\ \A i \in DOMAIN state.goals : ~state.goals[i].isActive

SpecIdle == InitIdle /\ [][NextGoalTimers]_vars

ActiveGoals(goals) == {i \in DOMAIN goals : goals[i].isActive}

\* running sessions and active goal timers of the client state together
ActiveTimers(st) == RunningCount(st.sessions) + Cardinality(ActiveGoals(st.goals))

GoalIds == <<"g1", "g2", "g3">>

\* the goal mapping of saveGoal and saveEditing: id, text, categoryId,
\* completed and createdAt only, so totalSeconds and lastStartTime are
\* undefined and isActive, undefined too, reads as false
RowToGoalBare(g) ==
  [id |-> g.id, categoryId |-> g.category_id, completed |-> g.completed,
   totalSeconds |-> Undef, isActive |-> FALSE, lastStartTime |-> Undef]

\* saveGoal, authenticated: createGoal({text, category_id, completed:
\* false}), then the refetch
saveGoal(target) ==
  <<StoreCall("createGoal", Null, target), StoreCall("getGoals", Null, 0),
    StoreCall("setGoalsBare", Null, 0)>>

\* saveGoal without a signed-in user: setGoals(prev => [g, ...prev])
saveGoalLocal(st, target) ==
  [st EXCEPT !.goals =
     <<[id |-> GoalIds[Len(@) + 1], categoryId |-> target, completed |-> FALSE,
        totalSeconds |-> Undef, isActive |-> FALSE, lastStartTime |-> Undef]>>
     \o @]

\* saveEditing, authenticated: updateGoal(editingGoal, {text, category_id})
saveEditing(editingGoal, targetCategory) ==
  <<StoreCall("updateGoalEdit", editingGoal, targetCategory),
    StoreCall("getGoals", Null, 0), StoreCall("setGoalsBare", Null, 0)>>

\* saveEditing without a signed-in user
saveEditingLocal(st, editingGoal, targetCategory) ==
  [st EXCEPT !.goals =
     [i \in DOMAIN st.goals |->
        IF st.goals[i].id = editingGoal
        THEN [st.goals[i] EXCEPT !.categoryId = targetCategory]
        ELSE st.goals[i]]]

\* the user saves a new goal under the chosen category
SubmitGoal ==
  /\ tasks = <<>>
  /\ Len(state.goals) < Len(GoalIds)
  /\ \E target \in IdsOf(state.categories) :
       /\ op' = "saveGoal"
       /\ args' = [id |-> Null, categoryId |-> target]
       /\ ret' = [status |-> "called", before |-> state.goals]
       /\ IF isAuthenticated
          THEN /\ tasks' = <<NewTask(saveGoal(target))>>
               /\ UNCHANGED <<state, db>>
          ELSE /\ state' = saveGoalLocal(state, target)
               /\ UNCHANGED <<db, tasks>>
  /\ UNCHANGED isAuthenticated

\* the user saves the edited text and category of a goal
SubmitEditing ==
  /\ tasks = <<>>
  /\ \E i \in DOMAIN state.goals, targetCategory \in IdsOf(state.categories) :
       /\ op' = "saveEditing"
       /\ args' = [id |-> state.goals[i].id, categoryId |-> targetCategory]
       /\ ret' = [status |-> "called", before |-> state.goals]
       /\ IF isAuthenticated
          THEN /\ tasks' = <<NewTask(saveEditing(state.goals[i].id, targetCategory))>>
               /\ UNCHANGED <<state, db>>
          ELSE /\ state' = saveEditingLocal(state, state.goals[i].id, targetCategory)
               /\ UNCHANGED <<db, tasks>>
  /\ UNCHANGED isAuthenticated

\* dataService.createGoal reaches the store; the columns of the timer take
\* their defaults
createGoal ==
  /\ \E i \in DOMAIN tasks :
       /\ NextCall(i).call = "createGoal"
       /\ db' = [db EXCEPT !.goals =
                   Append(@, [id |-> GoalIds[Len(@) + 1],
                              category_id |-> NextCall(i).value,
                              completed |-> FALSE, total_seconds |-> 0,
                              is_active |-> FALSE, last_start_time |-> Undef])]
       /\ Resume(i, tasks[i])
  /\ UNCHANGED <<state, isAuthenticated, harnessVars>>

\* dataService.updateGoal(id, {text, category_id}) reaches the store
updateGoalEdit ==
  /\ \E i \in DOMAIN tasks :
       /\ NextCall(i).call = "updateGoalEdit"
       /\ db' = [db EXCEPT !.goals =
                   [k \in DOMAIN db.goals |->
                      IF db.goals[k].id = NextCall(i).id
                      THEN [db.goals[k] EXCEPT !.category_id = NextCall(i).value]
                      ELSE db.goals[k]]]
       /\ Resume(i, tasks[i])
  /\ UNCHANGED <<state, isAuthenticated, harnessVars>>

\* setGoals(() => goalsData.map(...)) of saveGoal and saveEditing
setGoalsBare ==
  /\ \E i \in DOMAIN tasks :
       /\ NextCall(i).call = "setGoalsBare"
       /\ state' = [state EXCEPT !.goals =
                      [k \in DOMAIN tasks[i].goalsData |->
                         RowToGoalBare(tasks[i].goalsData[k])]]
       /\ Resume(i, tasks[i])
  /\ UNCHANGED <<db, isAuthenticated, harnessVars>>

NextGoalEdits ==
  \/ SubmitGoal
  \/ SubmitEditing
  \/ createGoal
  \/ updateGoalEdit
  \/ getGoalsCall
  \/ setGoalsBare
  \/ subscribeToGoals

SpecGoalEdits == InitGoalTimers /\ [][NextGoalEdits]_vars

\* ---- properties of creating and editing goals

\* the timer of a goal as its readers see it: totalSeconds || 0, the
\* active flag, the last-resume instant
TimerOf(g) ==
  [totalSeconds |-> IF Truthy(g.totalSeconds) THEN g.totalSeconds ELSE 0,
   isActive |-> g.isActive,
   lastStartTime |-> g.lastStartTime]

GoalSaved == op \in {"saveGoal", "saveEditing"} /\ tasks = <<>>

\* every goal of before the call is in the client state with its timer
TimersKept ==
  \A i \in DOMAIN ret.before :
    /\ HasGoal(state, ret.before[i].id)
    /\ TimerOf(goalOf(state, ret.before[i].id)) = TimerOf(ret.before[i])

\* C27: once saveGoal or saveEditing has completed, signed in or not,
\* every goal that existed before the call has the accumulated seconds,
\* the active flag and the last-resume instant it had before the call.
C27_GoalTimersKept == GoalSaved => TimersKept

\* what holds: the same without a signed-in user
GoalTimersKeptLocally == (GoalSaved /\ ~isAuthenticated) => TimersKept

\* ---------------------------------------------------------------------
\* Category handlers of the page component (page.tsx 1969-2023, 2116-2167)
\* ---------------------------------------------------------------------

\* n || undefined, n || null
OrUndefined(n) == IF Truthy(n) THEN n ELSE Undef

\* the sum addCategory validates, over the categories of its closure:
\* computeRootGoalSum / computeChildGoalSum with {goal: cat.goalPct ?? 0}
addCategorySum(categories, parentId, goalPct) ==
  IF parentId = Null
  THEN computeRootGoalSum(categories, [given |-> TRUE, id |-> Null,
                                       goal |-> OrZero(goalPct)])
  ELSE computeChildGoalSum(categories, parentId,
                           [given |-> TRUE, id |-> Null, goal |-> OrZero(goalPct)])

\* addCategory past its validation: createCategory({goal_pct: goalPct ||
\* null, parent_id}), then the refetch
addCategory(parentId, goalPct) ==
  <<StoreCall("createCategory", parentId, OrUndefined(goalPct)),
    StoreCall("getCategories", Null, 0), StoreCall("setCategories", Null, 0)>>

\* the validation of saveEditor run on the stored goals, the edited goal
\* left out
saveEditorSumStored(categories, cat, goal) ==
  IF cat.parentId # Null
  THEN computeChildGoalSum(categories, cat.parentId, NoOverride)
  ELSE computeRootGoalSum(categories, NoOverride)

\* the sum saveEditor validates for the category cat of its closure
saveEditorSum(categories, cat, goal) ==
  IF cat.parentId # Null
  THEN computeChildGoalSum(categories, cat.parentId,
                           [given |-> TRUE, id |-> cat.id, goal |-> goal])
  ELSE computeRootGoalSum(categories, [given |-> TRUE, id |-> cat.id,
                                       goal |-> goal])

\* saveEditor past its validation, authenticated: updateCategory(editingId,
\* {goal_pct: goal || null}), then the refetch
saveEditor(editingId, goal) ==
  <<StoreCall("updateCategory", editingId, OrUndefined(goal)),
    StoreCall("getCategories", Null, 0), StoreCall("setCategories", Null, 0)>>

\* saveEditor without a signed-in user: setCategories(prev => prev.map(...))
saveEditorLocal(st, editingId, goal) ==
  [st EXCEPT !.categories =
     [i \in DOMAIN st.categories |->
        IF st.categories[i].id = editingId
        THEN [st.categories[i] EXCEPT !.goalPct = OrUndefined(goal)]
        ELSE st.categories[i]]]

\* goals the add form hands over (numericGoal || undefined) and goals the
\* editor holds (editGoal ? Number(editGoal) : 0)
AddGoals == {Undef, 10}

\* ids the store gives to categories, in creation order
CategoryIds == <<"a", "b", "c">>
EditGoals == {0, 40}

CreatesOfCategories(calls) ==
  Len(SelectSeq(calls, LAMBDA c : c.call = "createCategory"))

PendingCategories ==
  SumOver([i \in DOMAIN tasks |-> CreatesOfCategories(tasks[i].calls)],
          DOMAIN tasks)

\* the user saves the add form at the roots or under the first category
CallAddCategory ==
  /\ \E parentId \in {Null, CategoryIds[1]}, goalPct \in AddGoals :
       /\ parentId \in IdsOf(state.categories) \cup {Null}
       /\ ~Exceeds(addCategorySum(state.categories, parentId, goalPct))
       /\ IF isAuthenticated
          THEN /\ Len(tasks) < Len(TaskPool)
               /\ Len(db.categories) + PendingCategories < Len(CategoryIds)
               /\ tasks' = Append(tasks, NewTask(addCategory(parentId, goalPct)))
               /\ UNCHANGED <<state, db>>
          ELSE UNCHANGED <<state, db, tasks>>
  /\ UNCHANGED <<isAuthenticated, harnessVars>>

\* the user saves the editor of a category
CallSaveEditor ==
  /\ \E i \in DOMAIN state.categories, goal \in EditGoals :
       /\ ~Exceeds(saveEditorSum(state.categories, state.categories[i], goal))
       /\ IF isAuthenticated
          THEN /\ Len(tasks) < Len(TaskPool)
               /\ tasks' = Append(tasks, NewTask(saveEditor(state.categories[i].id, goal)))
               /\ UNCHANGED <<state, db>>
          ELSE /\ state' = saveEditorLocal(state, state.categories[i].id, goal)
               /\ UNCHANGED <<db, tasks>>
  /\ UNCHANGED <<isAuthenticated, harnessVars>>

\* dataService.createCategory reaches the store
createCategory ==
  /\ \E i \in DOMAIN tasks :
       /\ NextCall(i).call = "createCategory"
       /\ db' = [db EXCEPT !.categories =
                   Append(@, [id |-> CategoryIds[Len(@) + 1],
                              goal_pct |-> NextCall(i).value,
                              parent_id |-> NextCall(i).id,
                              exclude_from_goals |-> FALSE])]
       /\ Resume(i, tasks[i])
  /\ UNCHANGED <<state, isAuthenticated, harnessVars>>

\* dataService.updateCategory reaches the store
updateCategory ==
  /\ \E i \in DOMAIN tasks :
       /\ NextCall(i).call = "updateCategory"
       /\ db' = [db EXCEPT !.categories =
                   [k \in DOMAIN db.categories |->
                      IF db.categories[k].id = NextCall(i).id
                      THEN [db.categories[k] EXCEPT !.goal_pct = NextCall(i).value]
                      ELSE db.categories[k]]]
       /\ Resume(i, tasks[i])
  /\ UNCHANGED <<state, isAuthenticated, harnessVars>>

\* dataService.getCategories()
getCategoriesCall ==
  /\ \E i \in DOMAIN tasks :
       /\ NextCall(i).call = "getCategories"
       /\ Resume(i, [tasks[i] EXCEPT !.categoriesData = getCategories(db.categories)])
  /\ UNCHANGED <<state, db, isAuthenticated, harnessVars>>

\* setCategories(categoriesData.map(...))
setCategories ==
  /\ \E i \in DOMAIN tasks :
       /\ NextCall(i).call = "setCategories"
       /\ state' = [state EXCEPT !.categories =
                      RowsToCategories(tasks[i].categoriesData)]
       /\ Resume(i, tasks[i])
  /\ UNCHANGED <<db, isAuthenticated, harnessVars>>

\* the categories subscription: a change of the stored categories is pushed
subscribeToCategories ==
  /\ isAuthenticated
  /\ state.categories # RowsToCategories(getCategories(db.categories))
  /\ state' = [state EXCEPT !.categories =
                 RowsToCategories(getCategories(db.categories))]
  /\ UNCHANGED <<db, tasks, isAuthenticated, harnessVars>>

\* sum of the goals of the categories whose parent is level
LevelSum(categories, level) ==
  SumOver([i \in DOMAIN categories |-> OrZero(categories[i].goalPct)],
          {i \in DOMAIN categories : categories[i].parentId = level})

\* every sibling level (the roots, the children of one parent) sums to at
\* most 100
LevelsWithin(categories) ==
  \A level \in IdsOf(categories) \cup {Null} : LevelSum(categories, level) <= 100

\* after initializeApp: up to two stored categories, the second a root or
\* a child of the first, every level within 100
InitCategories ==
  /\ args = <<>>
  /\ op = "none"
  /\ ret = NoRet
  /\ isAuthenticated \in BOOLEAN
  /\ \E rows \in RowLists(2, {Undef, 60}, {}) :
       /\ \A i \in DOMAIN rows : rows[i].parent_id \in {rows[j].id : j \in 1..(i - 1)} \cup {Null}
       /\ LevelsWithin(RowsToCategories(rows))
       /\ db = [categories |-> IF isAuthenticated THEN rows ELSE <<>>,
                sessions |-> <<>>, goals |-> <<>>]
       /\ state = [categories |-> RowsToCategories(getCategories(rows)),
                   sessions |-> <<>>, goals |-> <<>>, activeId |-> Null]
  /\ tasks = <<>>

NextCategories ==
  \/ CallAddCategory
  \/ CallSaveEditor
  \/ createCategory
  \/ updateCategory
  \/ getCategoriesCall
  \/ setCategories
  \/ subscribeToCategories

SpecCategories == InitCategories /\ [][NextCategories]_vars

\* ---- properties of the category handlers

\* C6: from categories whose sibling levels each sum to at most 100, every
\* state reached by addCategory and saveEditor calls, those validated
\* against a stale snapshot included, has every sibling level at most 100.
C6_LevelsStayWithin == LevelsWithin(state.categories)

\* ---------------------------------------------------------------------
\* One category handler at a time, the validation's outcome recorded
\* ---------------------------------------------------------------------

\* goals the add form and the editor may hold when Save is pressed
SubmitGoals == {Undef, 10, 50}
EditorGoals == {0, 50}

\* what a handler call leaves for the properties: its outcome, the sum it
\* validated and the collection it started from
Outcome(status, sum) ==
  [status |-> status, sum |-> sum,
   before |-> [categories |-> state.categories, rows |-> db.categories]]

\* addCategory({parentId, goalPct}): the alert and return of lines 1973-1982,
\* else createCategory, which returns null without a signed-in user
\* (dataService.ts 128), and the refetch if (newCategory)
SubmitAddCategory ==
  /\ tasks = <<>>
  /\ Len(state.categories) < Len(CategoryIds)
  /\ \E parentId \in {Null, CategoryIds[1]}, goalPct \in SubmitGoals :
       LET sum == addCategorySum(state.categories, parentId, goalPct) IN
       /\ parentId \in IdsOf(state.categories) \cup {Null}
       /\ op' = "addCategory"
       /\ args' = [parentId |-> parentId, goal |-> goalPct, id |-> Null]
       /\ IF sum > 100
          THEN /\ ret' = Outcome("alert", sum)
               /\ UNCHANGED <<state, db, tasks>>
          ELSE /\ ret' = Outcome("accepted", sum)
               /\ tasks' = IF isAuthenticated
                           THEN <<NewTask(addCategory(parentId, goalPct))>>
                           ELSE tasks
               /\ UNCHANGED <<state, db>>
  /\ UNCHANGED isAuthenticated

\* saveEditor() for the category being edited: the alert and return of
\* lines 2127-2136, else the update of the store or of the local state
SubmitSaveEditor ==
  /\ tasks = <<>>
  /\ \E i \in DOMAIN state.categories, goal \in EditorGoals :
       LET cat == state.categories[i]
           sum == saveEditorSum(state.categories, cat, goal) IN
       /\ op' = "saveEditor"
       /\ args' = [parentId |-> cat.parentId, goal |-> goal, id |-> cat.id]
       /\ IF sum > 100
          THEN /\ ret' = Outcome("alert", sum)
               /\ UNCHANGED <<state, db, tasks>>
          ELSE /\ ret' = Outcome("accepted", sum)
               /\ IF isAuthenticated
                  THEN /\ tasks' = <<NewTask(saveEditor(cat.id, goal))>>
                       /\ UNCHANGED <<state, db>>
                  ELSE /\ state' = saveEditorLocal(state, cat.id, goal)
                       /\ UNCHANGED <<db, tasks>>
  /\ UNCHANGED isAuthenticated

NextCategoryCalls ==
  \/ SubmitAddCategory
  \/ SubmitSaveEditor
  \/ createCategory
  \/ updateCategory
  \/ getCategoriesCall
  \/ setCategories
  \/ subscribeToCategories

SpecCategoryCalls == InitCategories /\ [][NextCategoryCalls]_vars

\* ---- properties of single handler calls

Submitted == op \in {"addCategory", "saveEditor"}

\* the goal sum of the level of the proposed create or edit: the goals of
\* the level's categories as they were before the call, the proposed goal
\* in place of the edited category's or added for a new one
ProposedSum ==
  LET before == ret.before.categories
      level == {i \in DOMAIN before : before[i].parentId = args.parentId}
      goalOfRow(i) == IF before[i].id = args.id THEN OrZero(args.goal)
                      ELSE OrZero(before[i].goalPct)
  IN SumOver([i \in DOMAIN before |-> goalOfRow(i)], level)
     + (IF args.id = Null THEN OrZero(args.goal) ELSE 0)

\* C24: when the goal sum of a proposed create or edit is greater than 100,
\* addCategory and saveEditor write nothing: the categories of the local
\* state and the stored rows are those of before the call, and no store
\* call is under way.
C24_ExceedingWritesNothing ==
  (Submitted /\ ProposedSum > 100) =>
    /\ state.categories = ret.before.categories
    /\ db.categories = ret.before.rows
    /\ tasks = <<>>

\* witness: with a root of 60, a second root of 50 was proposed and refused
C24_Witness ==
  /\ op = "addCategory"
  /\ args.parentId = Null
  /\ ProposedSum = 110
  /\ ret.status = "alert"
  /\ state.categories = ret.before.categories

\* the category an accepted addCategory call was to create
IsAdded(c) ==
  /\ c.id \notin IdsOf(ret.before.categories)
  /\ c.parentId = args.parentId
  /\ c.goalPct = OrUndefined(args.goal)

\* C30: once an addCategory call whose goal passed the validation is over,
\* the new category is part of the category collection, with or without a
\* signed-in user.
C30_AddedOnceComplete ==
  (op = "addCategory" /\ ret.status = "accepted" /\ tasks = <<>>) =>
    \E i \in DOMAIN state.categories : IsAdded(state.categories[i])

\* what holds with a signed-in user
AddedWhenSignedIn == isAuthenticated => C30_AddedOnceComplete

\* ====================================================================
\* Formatting of a duration (page.tsx 44-76)
\* ====================================================================

\* A number of seconds is a fraction num / den of integers; the returned
\* string is the sequence of its parts, each part the count, the text of
\* the unit and the plural suffix the template appends ("" or "s").

YEAR == 365 * 24 * 3600
DAY == 24 * 3600
HOUR == 3600
MIN == 60

\* Math.floor
MathFloor(x) == x.num \div x.den

Part(count, unit, plural) == [count |-> count, unit |-> unit, plural |-> plural]

\* the plural suffix with the test of the count left out
pluralAlways(count) == "s"

\* ${count === 1 ? "" : "s"} of the yr, day and hr templates
plural(count) == IF count = 1 THEN "" ELSE "s"

\* `${mins} min` and `${secs} sec`: templates without a suffix
minPart(mins) == Part(mins, "min", "")
secPart(secs) == Part(secs, "sec", "")

\* part.includes(text) for the texts "yr" and "day"; no other unit and no
\* count contains either
includes(part, text) == part.unit = text

formatHMS(totalSeconds) ==
  LET s0 == Max2(0, MathFloor(totalSeconds))
      years == s0 \div YEAR
      s1 == s0 - years * YEAR
      days == s1 \div DAY
      s2 == s1 - days * DAY
      hours == s2 \div HOUR
      s3 == s2 - hours * HOUR
      mins == s3 \div MIN
      secs == s3 % MIN
      yrPart == Part(years, "yr", plural(years))
      dayPart == Part(days, "day", plural(days))
      hrPart == Part(hours, "hr", plural(hours))
      p1 == IF years # 0 THEN <<yrPart>> ELSE <<>>
      p2 == IF days # 0 THEN Append(p1, dayPart) ELSE p1
      p3 == IF Len(p2) = 0 /\ hours # 0 THEN Append(p2, hrPart) ELSE p2
      p4 == IF Len(p3) = 0 /\ hours = 0 /\ mins # 0
            THEN Append(p3, minPart(mins)) ELSE p3
      \* second part
      p5 == IF Len(p4) > 0 /\ (includes(p4[1], "yr") \/ includes(p4[1], "day"))
            THEN IF days # 0 /\ ~includes(p4[1], "day") THEN Append(p4, dayPart)
                 ELSE IF hours # 0 THEN Append(p4, hrPart)
                 ELSE p4
            ELSE IF hours # 0 THEN Append(p4, minPart(mins))
            ELSE IF mins # 0 THEN Append(p4, secPart(secs))
            ELSE Append(p4, secPart(secs))
  IN p5

\* ---- harness of formatHMS

MaxYears == 2

\* whole seconds made of every combination of unit counts, each also with
\* half a second more, and two negative numbers
DurationInputs ==
  {[num |-> den * (((y * 365 + d) * 24 + h) * 3600 + m * 60 + s) + (den - 1),
    den |-> den] :
      y \in 0..MaxYears, d \in {0, 1, 35}, h \in {0, 1, 5},
      m \in {0, 1, 2}, s \in {0, 1, 59}, den \in {1, 2}}
  \cup {[num |-> 0 - 1, den |-> 2], [num |-> 0 - 61, den |-> 1]}

InitFormat ==
  /\ args \in {[totalSeconds |-> t] : t \in DurationInputs}
  /\ op = "none"
  /\ ret = NoRet
  /\ Unmounted

CallFormatHMS ==
  /\ op = "none"
  /\ op' = "formatHMS"
  /\ ret' = [status |-> "ok", parts |-> formatHMS(args.totalSeconds)]
  /\ UNCHANGED <<args, appVars>>

NextFormat == CallFormatHMS

SpecFormat == InitFormat /\ [][NextFormat]_vars

\* ---- properties of formatHMS

Formatted == op = "formatHMS"

\* the input floored, negatives clamped to 0, and its unit counts
Floored == Max2(0, args.totalSeconds.num \div args.totalSeconds.den)
YearsOf == Floored \div YEAR
DaysOf == (Floored % YEAR) \div DAY
HoursOf == (Floored % DAY) \div HOUR
MinsOf == (Floored % HOUR) \div MIN
SecsOf == Floored % MIN

Shown(unit, count) == [unit |-> unit, count |-> count]
ShownParts == [i \in DOMAIN ret.parts |-> Shown(ret.parts[i].unit, ret.parts[i].count)]

\* C21: for every number of seconds the string formatHMS returns has at
\* most two count-and-label parts.
C21_AtMostTwoParts == Formatted => Len(ret.parts) <= 2

\* the units and counts that the table of the formatting helper selects
TableParts ==
  IF Floored >= YEAR
  THEN <<Shown("yr", YearsOf)>> \o
       (IF DaysOf # 0 THEN <<Shown("day", DaysOf)>> ELSE <<>>)
  ELSE IF Floored >= DAY
  THEN <<Shown("day", DaysOf)>> \o
       (IF HoursOf # 0 THEN <<Shown("hr", HoursOf)>> ELSE <<>>)
  ELSE IF Floored >= HOUR
  THEN <<Shown("hr", HoursOf), Shown("min", MinsOf)>>
  ELSE IF Floored >= MIN
  THEN <<Shown("min", MinsOf), Shown("sec", SecsOf)>>
  ELSE <<Shown("sec", SecsOf)>>

\* C22: formatHMS shows exactly the units of the table, computed on the
\* floored input with negatives clamped to 0: years then days (if nonzero),
\* days then hours (if nonzero), hours then minutes, minutes then seconds,
\* seconds only.
C22_UnitsByTable == Formatted => ShownParts = TableParts

\* what holds of the first part: it is the largest unit with a nonzero
\* count, and "0 sec" for an input that floors to 0 or less
FirstUnitIsLargest ==
  Formatted => 
    /\ Len(ret.parts) >= 1
    /\ ShownParts[1] = TableParts[1]

\* below one year the table is followed
TableBelowOneYear == (Formatted /\ Floored < YEAR) => ShownParts = TableParts

\* C23 as stated: every unit label of the returned string, yr, day, hr,
\* min or sec, carries the plural s unless its count is exactly 1.
C23_AsStated ==
  Formatted =>
    \A i \in DOMAIN ret.parts :
      ret.parts[i].plural = (IF ret.parts[i].count = 1 THEN "" ELSE "s")

\* C23 amended: the labels yr, day and hr carry the plural s unless their
\* count is exactly 1; the labels min and sec never carry it.
C23_Amended ==
  Formatted =>
    \A i \in DOMAIN ret.parts :
      LET p == ret.parts[i] IN
      IF p.unit \in {"yr", "day", "hr"}
      THEN p.plural = (IF p.count = 1 THEN "" ELSE "s")
      ELSE p.plural = ""

\* witness: "5 hrs 2 min" was returned, hr with the plural s and min, with
\* a count other than 1, without it
C23_Witness ==
  /\ Formatted
  /\ ret.parts = <<Part(5, "hr", "s"), Part(2, "min", "")>>

====
